---- MODULE Spec2Model ----
(***************************************************************************)
(* Verification model of the imdb framework.                               *)
(*                                                                         *)
(*  Part I  : the parallel descriptor driver (ComputeDescriptors and the   *)
(*            per-property OrderedPushBack buffers).                       *)
(*  Part II : the inverted index (InvertedIndex) and its query.            *)
(*  Part III: the binary stream codec (io) and PropertyWriterT.            *)
(*  Part IV : the linear search and LinearSearchManager.                   *)
(*  Part V  : the quantizer and the histogram builder.                     *)
(*  Part VI : FileList::random_sample.                                     *)
(***************************************************************************)
EXTENDS Integers, Sequences, FiniteSets, TLC

(***************************************************************************)
(* Bounds of the model.                                                    *)
(***************************************************************************)
\* largest file list (M ranges over 0..MaxFiles)
MaxFiles == 3
\* largest worker count handed to start()
MaxThreads == 2
\* number of registered writers (declared properties of the generator)
NumWriters == 2
\* largest vocabulary an index is constructed with (V ranges over 1..MaxWords)
MaxWords == 2
\* largest entry of a histogram of visual words
MaxFreq == 1
\* most documents added to an index
MaxDocs == 3
\* largest number of results asked for
MaxResults == 4
\* most queries in a row (a query leaves the index as it found it)
MaxQueryRun == 1
\* one unit of the fixed-point numbers that stand for float values
Scale == 100

VARIABLES
    \* ---- ComputeDescriptors ------------------------------------------------
    numFiles,       \* _files.size()
    num_threads,    \* argument of start(); 0 before start() was called
    _index,         \* shared index cursor
    _error,         \* shared error flag
    _started,
    _finished,
    pc,             \* per worker: position in _thread
    current,        \* per worker: the local variable 'current'
    data,           \* per worker: writer names found in the local bundle 'data'
    wi,             \* per worker: position of the iterator over _writers
    ret,            \* value returned by the first start() call, "none" before
    ret2,           \* value returned by a repeated start() call, "none" before
    terminated,     \* the process ended abnormally (uncaught exception, assert)
    \* ---- OrderedPushBack, one per writer -----------------------------------
    _queue,             \* min-heap on the index, kept as an ascending sequence
    _numWrittenElements,
    sink,               \* what the underlying PropertyWriter has received
    \* ---- history (not program state) ----------------------------------------
    outcome,        \* per index: how its processing ended
    emitted,        \* per index: the declared properties its bundle contained
    holder,         \* per index: the worker that claimed it (0 = nobody)
    claimCount,     \* per index: how often it was claimed
    processCount,   \* per index: how often the try block ran for it
    late,           \* the indices claimed while _error was already set
    observed,       \* last value returned by current()
    thrownFile,     \* index named by the rethrown decode error, -1 if none
    assertFailed,   \* the assertion of push_back was violated
    \* ---- InvertedIndex and its caller ---------------------------------------
    invertedIndex,  \* the InvertedIndex object, a record of its members
    file,           \* the index file: <<>> or <<the fields written by save>>
    aborted,        \* the process using the index ended abnormally
    \* ---- history (not program state) ----------------------------------------
    lastOp,         \* the last call on the index: its arguments and what it
                    \* computed (for query: the result vector before and after)
    sinceFinal,     \* "never", "clean" (finalize/load was last) or "added"
    added,          \* the histograms the documents of the index were added from
    fileAdded       \* the histograms behind the index the file was saved from

dvars == <<numFiles, num_threads, _index, _error, _started, _finished, pc,
           current, data, wi, ret, ret2, terminated, _queue,
           _numWrittenElements, sink, outcome, emitted, holder, claimCount,
           processCount, late, observed, thrownFile, assertFailed>>

ivars == <<invertedIndex, file, aborted, lastOp, sinceFinal, added, fileAdded>>

VARIABLES
    \* ---- PropertyWriterT<T> -----------------------------------------------
    elemType,       \* the template argument T, as an index into ElementTypes
    _ofs,           \* the output stream: is_open() and the bytes of the file
    _offset,        \* the offset table
    _map,           \* the metadata map
    writerState,    \* "constructed", "destroyed", or "stopped" by an assertion
    elements,       \* history: every element written, with its position
    writerOp        \* history: the last operation on the writer

wvars == <<elemType, _ofs, _offset, _map, writerState, elements, writerOp>>

VARIABLES
    \* ---- LinearSearchManager and the caller's result vector ----------------
    numFeatures,    \* _features.size()
    result,         \* the vector handed to linear_search and query
    numCalls,       \* history: the number of searches made
    searchOp        \* history: the last call, its arguments and the vector before

svars == <<numFeatures, result, numCalls, searchOp>>

VARIABLES
    \* ---- the standard library the program is built with --------------------
    subscript       \* what &v[0] does on an empty vector: "null" or "abort"

VARIABLES
    \* ---- the quantizer ------------------------------------------------------
    vocabulary,         \* the centroids
    quantized_sample,   \* the output vector handed to a quantizer
    quantized_samples,  \* the output vector of quantize_samples_parallel
    quantOp             \* history: the last call and its arguments

qvars == <<vocabulary, quantized_sample, quantized_samples, quantOp>>

VARIABLES
    \* ---- the histogram builder ----------------------------------------------
    quantized_features, \* the quantized samples of one image
    positions,          \* their positions in [0,1]x[0,1]
    histvw,             \* the output vector of build_histvw
    histOp              \* history: the last call and its arguments

hvars == <<quantized_features, positions, histvw, histOp>>

VARIABLES
    \* ---- FileList -----------------------------------------------------------
    _files,             \* the file names, each standing for its original position
    listOp              \* history: the last call, its arguments and the list before

lvars == <<_files, listOp>>

vars == <<dvars, ivars, wvars, svars, qvars, hvars, lvars, subscript>>

\* what the operations of one part leave alone
notDriver == <<ivars, wvars, svars, qvars, hvars, lvars, subscript>>
notIndex == <<dvars, wvars, svars, qvars, hvars, lvars, subscript>>
notWriter == <<dvars, ivars, svars, qvars, hvars, lvars, subscript>>
notSearch == <<dvars, ivars, wvars, qvars, hvars, lvars, subscript>>
notQuantizer == <<dvars, ivars, wvars, svars, hvars, lvars, subscript>>
notHistogram == <<dvars, ivars, wvars, svars, qvars, lvars, subscript>>
notFileList == <<dvars, ivars, wvars, svars, qvars, hvars, subscript>>

Workers == 1..MaxThreads
Writers == 1..NumWriters
Indices == 0..(MaxFiles - 1)

(***************************************************************************)
(* OrderedPushBack                                                         *)
(***************************************************************************)

\* std::priority_queue with std::greater: the element with the least index
\* is on top.  The heap is kept as a sequence in ascending order.
RECURSIVE PQPush(_, _)
PQPush(q, x) ==
    IF q = <<>> THEN <<x>>
    ELSE IF x <= Head(q) THEN <<x>> \o q
    ELSE <<Head(q)>> \o PQPush(Tail(q), x)

\* mutant: the heap's top is its greatest element
PQTop_Last(q) == q[Len(q)]

\* priority_queue::top
PQTop(q) == Head(q)

\* priority_queue::pop
PQPop(q) == Tail(q)

\* mutant: the draining loop forwards whatever is on top
CanForward_NoOrder(q, n) == q # <<>>

\* mutant: the draining loop forwards everything at or past the expected number
CanForward_AtLeast(q, n) == q # <<>> /\ Head(q) >= n

\* the condition of the draining loop of push_back
CanForward(q, n) == q # <<>> /\ PQTop(q) = n

\* the draining loop of push_back: state is [q, n, out]
RECURSIVE Drain(_)
Drain(s) ==
    IF CanForward(s.q, s.n)
    THEN Drain([q |-> PQPop(s.q), n |-> s.n + 1, out |-> Append(s.out, PQTop(s.q))])
    ELSE s

\* the precondition asserted by push_back
PushAssert(index, n) == index >= n

\* OrderedPushBack::push_back(index, element) on writer p
push_back(p, index) ==
    IF ~PushAssert(index, _numWrittenElements[p])
    THEN /\ assertFailed' = TRUE
         /\ terminated' = TRUE
         /\ UNCHANGED <<_queue, _numWrittenElements, sink>>
    ELSE LET s == Drain([q |-> PQPush(_queue[p], index),
                         n |-> _numWrittenElements[p],
                         out |-> sink[p]])
         IN /\ _queue' = [_queue EXCEPT ![p] = s.q]
            /\ _numWrittenElements' = [_numWrittenElements EXCEPT ![p] = s.n]
            /\ sink' = [sink EXCEPT ![p] = s.out]
            /\ UNCHANGED <<assertFailed, terminated>>

\* OrderedPushBack::empty_buffer
empty_buffer(p) == _queue[p] = <<>>

(***************************************************************************)
(* ComputeDescriptors                                                      *)
(***************************************************************************)

\* how one pass through the try block of _thread can end
Outcomes == {"ok", "std_exception", "cv_exception"}

\* state after the constructor and the add_writer calls
DriverInit ==
    /\ numFiles \in 0..MaxFiles
    /\ num_threads = 0
    /\ _index = 0
    /\ _error = FALSE
    /\ _started = FALSE
    /\ _finished = FALSE
    /\ pc = [w \in Workers |-> "idle"]
    /\ current = [w \in Workers |-> 0]
    /\ data = [w \in Workers |-> {}]
    /\ wi = [w \in Workers |-> 1]
    /\ ret = "none"
    /\ ret2 = "none"
    /\ terminated = FALSE
    /\ _queue = [p \in Writers |-> <<>>]
    /\ _numWrittenElements = [p \in Writers |-> 0]
    /\ sink = [p \in Writers |-> <<>>]
    /\ outcome = [i \in Indices |-> "none"]
    /\ emitted = [i \in Indices |-> {}]
    /\ holder = [i \in Indices |-> 0]
    /\ claimCount = [i \in Indices |-> 0]
    /\ processCount = [i \in Indices |-> 0]
    /\ late = {}
    /\ observed = 0
    /\ thrownFile = -1
    /\ assertFailed = FALSE

\* start(num_threads): the part up to the creation of the thread pool
Start ==
    /\ ~terminated
    /\ ~_started
    /\ \E n \in 1..MaxThreads :
         /\ num_threads' = n
         /\ pc' = [w \in Workers |-> IF w <= n THEN "while" ELSE "idle"]
    /\ _started' = TRUE
    /\ UNCHANGED <<numFiles, _index, _error, _finished, current, data, wi, ret,
                   ret2, terminated, _queue, _numWrittenElements, sink, outcome,
                   emitted, holder, claimCount, processCount, late, observed,
                   thrownFile, assertFailed>>
    /\ UNCHANGED notDriver

\* start() called again after it returned: if (_started) return false
StartAgain ==
    /\ ~terminated
    /\ _started
    /\ ret # "none"
    /\ ret2' = "false"
    /\ UNCHANGED <<numFiles, num_threads, _index, _error, _started, _finished,
                   pc, current, data, wi, ret, terminated, _queue,
                   _numWrittenElements, sink, outcome, emitted, holder,
                   claimCount, processCount, late, observed, thrownFile, assertFailed>>
    /\ UNCHANGED notDriver

\* mutant: start() forgets the buffers
StartResult_IgnoreBuffers(err, nonempty) == IF err THEN "false" ELSE "true"

\* the value start() returns, from _error and the state of the buffers
StartResult(err, nonempty) == IF err \/ nonempty THEN "false" ELSE "true"

\* start(): join_all() has returned; the rest of start()
Join ==
    /\ ~terminated
    /\ _started
    /\ ret = "none"
    /\ \A w \in 1..num_threads : pc[w] = "exit"
    /\ _finished' = TRUE
    /\ LET nonempty == \E p \in Writers : ~empty_buffer(p)
       IN /\ _error' = (_error \/ nonempty)
          /\ ret' = StartResult(_error, nonempty)
    /\ UNCHANGED <<numFiles, num_threads, _index, _started, pc, current, data,
                   wi, ret2, terminated, _queue, _numWrittenElements, sink,
                   outcome, emitted, holder, claimCount, processCount, late, observed,
                   thrownFile, assertFailed>>
    /\ UNCHANGED notDriver

\* mutant: current() is off by one
Current_OffByOne(i) == i + 1

\* current(): returns _index under the cursor lock
Current(i) == i

\* the progress observer (or any other thread) calls current()
Observe ==
    /\ ~terminated
    /\ observed' = Current(_index)
    /\ observed' # observed
    /\ UNCHANGED <<numFiles, num_threads, _index, _error, _started, _finished,
                   pc, current, data, wi, ret, ret2, terminated, _queue,
                   _numWrittenElements, sink, outcome, emitted, holder,
                   claimCount, processCount, late, thrownFile, assertFailed>>
    /\ UNCHANGED notDriver

\* mutant: the loop ignores the error flag
LoopCond_Always(err) == TRUE

\* the loop condition of _thread: while (!_error)
LoopCond(err) == ~err

\* _thread: evaluation of the loop condition
WhileTest(w) ==
    /\ ~terminated
    /\ pc[w] = "while"
    /\ pc' = [pc EXCEPT ![w] = IF LoopCond(_error) THEN "claim" ELSE "exit"]
    /\ UNCHANGED <<numFiles, num_threads, _index, _error, _started, _finished,
                   current, data, wi, ret, ret2, terminated, _queue,
                   _numWrittenElements, sink, outcome, emitted, holder,
                   claimCount, processCount, late, observed, thrownFile, assertFailed>>
    /\ UNCHANGED notDriver

\* mutant: the cursor is not advanced
NextIndex_Stuck(i) == i

\* mutant: the cursor skips an index
NextIndex_Skip(i) == i + 2

\* the cursor after a claim: _index++
NextIndex(i) == i + 1

\* _thread: the block guarded by the cursor lock
Claim(w) ==
    /\ ~terminated
    /\ pc[w] = "claim"
    /\ IF _index = numFiles
       THEN /\ pc' = [pc EXCEPT ![w] = "exit"]
            /\ UNCHANGED <<_index, current, holder, claimCount, late>>
       ELSE /\ current' = [current EXCEPT ![w] = _index]
            /\ _index' = NextIndex(_index)
            /\ pc' = [pc EXCEPT ![w] = "compute"]
            /\ holder' = [holder EXCEPT ![_index] = w]
            /\ claimCount' = [claimCount EXCEPT ![_index] = @ + 1]
            /\ late' = IF _error THEN late \cup {_index} ELSE late
    /\ UNCHANGED <<numFiles, num_threads, _error, _started, _finished, data, wi,
                   ret, ret2, terminated, _queue, _numWrittenElements, sink,
                   outcome, emitted, processCount, observed, thrownFile,
                   assertFailed>>
    /\ UNCHANGED notDriver

\* mutant: the handlers are in the other order, catch (std::exception&) first
Handler_StdFirst(o) == "flag"

\* which catch clause of _thread handles an exception: catch (cv::Exception&)
\* comes first and rethrows, catch (std::exception&) sets the error flag
Handler(o) == IF o = "cv_exception" THEN "rethrow" ELSE "flag"

\* _thread: imread and gen->compute(data) inside the try block, with the two
\* handlers.  The generator decides which declared properties the bundle holds.
Compute(w) ==
    /\ ~terminated
    /\ pc[w] = "compute"
    /\ \E o \in Outcomes, e \in SUBSET Writers :
         /\ o # "ok" => e = {}
         /\ outcome' = [outcome EXCEPT ![current[w]] = o]
         /\ emitted' = [emitted EXCEPT ![current[w]] = e]
         /\ processCount' = [processCount EXCEPT ![current[w]] = @ + 1]
         /\ IF o = "ok"
            THEN /\ data' = [data EXCEPT ![w] = e]
                 /\ wi' = [wi EXCEPT ![w] = 1]
                 /\ pc' = [pc EXCEPT ![w] = "push"]
                 /\ UNCHANGED <<_error, terminated, thrownFile>>
            ELSE IF Handler(o) = "rethrow"
            THEN \* the runtime_error naming the file leaves the thread
                 \* function: the thread library calls std::terminate
                 /\ thrownFile' = current[w]
                 /\ terminated' = TRUE
                 /\ pc' = [pc EXCEPT ![w] = "thrown"]
                 /\ UNCHANGED <<_error, data, wi>>
            ELSE \* std::cerr << e.what(); _error = true; return
                 /\ _error' = TRUE
                 /\ pc' = [pc EXCEPT ![w] = "exit"]
                 /\ UNCHANGED <<data, wi, terminated, thrownFile>>
    /\ UNCHANGED <<numFiles, num_threads, _index, _started, _finished, current,
                   ret, ret2, _queue, _numWrittenElements, sink, holder,
                   claimCount, late, observed, assertFailed>>
    /\ UNCHANGED notDriver

\* _thread: one iteration of the loop over _writers
Push(w) ==
    /\ ~terminated
    /\ pc[w] = "push"
    /\ IF wi[w] \in data[w]
       THEN push_back(wi[w], current[w])
       ELSE UNCHANGED <<_queue, _numWrittenElements, sink, assertFailed, terminated>>
    /\ IF wi[w] = NumWriters
       THEN /\ pc' = [pc EXCEPT ![w] = "while"]
            /\ wi' = [wi EXCEPT ![w] = 1]
            /\ data' = [data EXCEPT ![w] = {}]
       ELSE /\ wi' = [wi EXCEPT ![w] = @ + 1]
            /\ UNCHANGED <<pc, data>>
    /\ UNCHANGED <<numFiles, num_threads, _index, _error, _started, _finished,
                   current, ret, ret2, outcome, emitted, holder, claimCount, processCount,
                   late, observed, thrownFile>>
    /\ UNCHANGED notDriver

DriverNext ==
    \/ Start
    \/ StartAgain
    \/ Join
    \/ Observe
    \/ \E w \in Workers : WhileTest(w)
    \/ \E w \in Workers : Claim(w)
    \/ \E w \in Workers : Compute(w)
    \/ \E w \in Workers : Push(w)

(***************************************************************************)
(* Properties of the driver                                                *)
(***************************************************************************)

Range(f) == {f[k] : k \in DOMAIN f}

\* the sequence 0, 1, ..., n-1
Iota(n) == [k \in 1..n |-> k - 1]

Failed(i) == outcome[i] \in {"std_exception", "cv_exception"}

NoFailure == \A i \in Indices : ~Failed(i)

FullEmission == \A i \in Indices : outcome[i] = "ok" => emitted[i] = Writers

\* the output of index i for writer p has been handed to push_back
Pushed(i, p) ==
    /\ outcome[i] = "ok"
    /\ p \in emitted[i]
    /\ ~(pc[holder[i]] = "push" /\ current[holder[i]] = i /\ wi[holder[i]] <= p)

Claimed == {i \in Indices : claimCount[i] > 0}

\* C1: in every reachable state each sink holds exactly the outputs of the
\* indices 0, 1, ..., n-1 in this order, for some n <= M: nothing is skipped,
\* repeated or out of ascending order.
C1_SinkIsPrefix ==
    \A p \in Writers :
        /\ Len(sink[p]) <= numFiles
        /\ sink[p] = Iota(Len(sink[p]))

\* C1 witness: a later index completed first and waits in the buffer while
\* the sink already holds a non-empty prefix
C1_Witness ==
    \E p \in Writers : Len(sink[p]) >= 1 /\ _queue[p] # <<>> /\ num_threads = 2

\* C2: when start() returns after a run in which the generator never failed
\* and every bundle held every declared property, each sink holds the M
\* outputs in index order, every ordered buffer is empty and start() returned
\* true.
C2_CompleteRun ==
    (ret # "none" /\ NoFailure /\ FullEmission) =>
        /\ \A p \in Writers : sink[p] = Iota(numFiles) /\ empty_buffer(p)
        /\ ret = "true"

\* C2 witness: such a run with the longest list and several workers returned
C2_Witness ==
    /\ ret = "true" /\ NoFailure /\ FullEmission
    /\ numFiles = MaxFiles /\ num_threads > 1
    /\ \E i \in Indices : holder[i] # holder[0]

\* C3: no index is claimed twice, no index >= M is claimed, and when start()
\* returns after a run without failures every index below M was claimed once
\* and processed once.
C3_ExactlyOnce ==
    /\ \A i \in Indices : claimCount[i] <= 1 /\ processCount[i] <= claimCount[i]
    /\ \A i \in Indices : i >= numFiles => claimCount[i] = 0
    /\ _index <= numFiles
    /\ (ret # "none" /\ NoFailure) =>
          \A i \in Indices : i < numFiles =>
              claimCount[i] = 1 /\ processCount[i] = 1 /\ outcome[i] = "ok"

\* C3 witness: a run without failures returned, its indices shared by workers
C3_Witness ==
    /\ ret # "none" /\ NoFailure /\ numFiles = MaxFiles
    /\ \E i, j \in Indices : holder[i] = 1 /\ holder[j] = 2

\* C4: start() returns false whenever a generator call raised or an ordered
\* buffer is non-empty at the join, and returns true only if no worker set
\* the error flag and every buffer is empty at the join.
C4_StartResult ==
    ret # "none" =>
        /\ ret = "false" <=>
              \/ \E i \in Indices : Failed(i)
              \/ \E p \in Writers : ~empty_buffer(p)
        /\ ret = "true" => ~_error
        /\ _error <=> ret = "false"

\* C4 witness: no generator call raised, but a buffer is non-empty at the join
C4_Witness ==
    /\ ret = "false" /\ NoFailure
    /\ \E p \in Writers : ~empty_buffer(p)

\* C5: if the processing of index f failed, no sink holds an element of index
\* f or above, results of later indices stay in the ordered buffer, and
\* current() at or after the failure is at least f.
C5_Inv ==
    \A f \in Indices : Failed(f) =>
        /\ \A p \in Writers : \A k \in Range(sink[p]) : k < f
        /\ \A p \in Writers : \A i \in Indices :
              (i > f /\ Pushed(i, p)) => i \in Range(_queue[p])
        /\ Current(_index) >= f

C5_Obs ==
    observed' # observed => \A f \in Indices : Failed(f)' => observed' >= f

C5_Recovery == []C5_Inv /\ [][C5_Obs]_vars

\* C5 witness: index f >= 1 failed, everything before it reached the sink and
\* a later index waits in the buffer
C5_Witness ==
    \E f \in Indices : \E p \in Writers :
        /\ f >= 1 /\ Failed(f)
        /\ Len(sink[p]) = f
        /\ \E i \in Range(_queue[p]) : i > f

\* the claims a worker made while the error flag was already set
LateClaimsOf(w) == {i \in late : holder[i] = w}

\* C6 as stated: once the error flag is set no index is claimed any more
C6_NoClaimAfterError == late = {}

\* C6 amended: a worker that evaluates the loop condition while the flag is
\* set leaves the loop, so after the flag is set each worker claims at most
\* one further index (the one whose loop test preceded the flag) and the
\* worker that set the flag first claims none; a worker that left the try
\* block normally has pushed the outputs of its index before it exits or
\* claims again.
C6_Cancellation ==
    /\ \A w \in Workers : Cardinality(LateClaimsOf(w)) <= 1
    /\ late # {} => Cardinality(late) <= num_threads - 1
    /\ \A i \in Indices :
          (outcome[i] = "ok" /\ ~(pc[holder[i]] = "push" /\ current[holder[i]] = i)) =>
              \A p \in emitted[i] : i \in Range(sink[p]) \cup Range(_queue[p])

\* C6 witness: a worker claimed an index after the flag was set, processed
\* it, pushed its outputs and left
C6_Witness ==
    \E i \in late :
        /\ outcome[i] = "ok" /\ emitted[i] = Writers
        /\ pc[holder[i]] = "exit"
        /\ \A p \in Writers : i \in Range(_queue[p])

\* C7: a cv::Exception for index f is rethrown as an error naming the file
\* and ends the run: start() does not return (so never returns true), nothing
\* runs any more and no output of f is written or buffered.
C7_DecodeFatal ==
    \A f \in Indices : outcome[f] = "cv_exception" =>
        /\ thrownFile = f
        /\ terminated
        /\ ret = "none" /\ ~_finished
        /\ ~ENABLED DriverNext
        /\ \A p \in Writers : f \notin Range(sink[p]) \cup Range(_queue[p])

\* C7 witness: a decode failure after earlier indices were written
C7_Witness ==
    \E f \in Indices :
        /\ outcome[f] = "cv_exception" /\ f >= 1
        /\ \E p \in Writers : Len(sink[p]) = f

\* C8: current() is the number of indices claimed so far, which is the lowest
\* unclaimed index; it never exceeds M, a value read by current() lies in
\* 0..M, and the cursor only moves up by one, with exactly one new claim.
C8_Inv ==
    /\ Current(_index) = Cardinality(Claimed)
    /\ Claimed = 0..(Current(_index) - 1)
    /\ Current(_index) \in 0..numFiles
    /\ observed \in 0..numFiles
    /\ observed <= _index

C8_Step ==
    /\ _index' = _index \/ _index' = _index + 1
    /\ _index' = _index + 1 <=>
          \E i \in Indices : claimCount' = [claimCount EXCEPT ![i] = @ + 1]
    /\ observed' >= observed

C8_Cursor == []C8_Inv /\ [][C8_Step]_vars

\* C8 witness: current() was read while indices were being claimed
C8_Witness ==
    /\ observed >= 1 /\ observed < _index
    /\ \E w \in Workers : pc[w] = "compute"

(***************************************************************************)
(* Part II: InvertedIndex                                                  *)
(***************************************************************************)

(* float values are fixed-point numbers: the integer x stands for x / Scale. *)
(* NaN and Inf stand for the IEEE values that a division by zero produces.   *)
NaN == 0 - 1
Inf == 0 - 2

\* the float with the value of the count c
F(c) == c * Scale

IsNum(a) == a >= 0

FAdd(a, b) ==
    IF a = NaN \/ b = NaN THEN NaN
    ELSE IF a = Inf \/ b = Inf THEN Inf
    ELSE a + b

FMul(a, b) ==
    IF a = NaN \/ b = NaN THEN NaN
    ELSE IF a = Inf \/ b = Inf THEN (IF a = 0 \/ b = 0 THEN NaN ELSE Inf)
    ELSE (a * b) \div Scale

FDiv(a, b) ==
    IF a = NaN \/ b = NaN THEN NaN
    ELSE IF a = Inf THEN (IF b = Inf THEN NaN ELSE Inf)
    ELSE IF b = Inf THEN 0
    ELSE IF b = 0 THEN (IF a = 0 THEN NaN ELSE Inf)
    ELSE (a * Scale) \div b

RECURSIVE ISqrt(_, _, _)
ISqrt(x, lo, hi) ==
    IF lo = hi THEN lo
    ELSE LET mid == (lo + hi + 1) \div 2
         IN IF mid * mid <= x THEN ISqrt(x, mid, hi) ELSE ISqrt(x, lo, mid - 1)

FSqrt(a) == IF ~IsNum(a) THEN a ELSE ISqrt(a * Scale, 0, a + Scale)

\* operator< on float values: false whenever an operand is NaN
FLess(a, b) ==
    IF a = NaN \/ b = NaN THEN FALSE
    ELSE IF a = Inf THEN FALSE
    ELSE IF b = Inf THEN TRUE
    ELSE a < b

RECURSIVE FSum(_)
FSum(xs) == IF xs = <<>> THEN 0 ELSE FAdd(Head(xs), FSum(Tail(xs)))

Min(a, b) == IF a <= b THEN a ELSE b

Terms(ix) == 0..(ix._numWords - 1)

Docs(ix) == 0..(ix._numDocuments - 1)

\* the histograms of visual words over a vocabulary of V words
Histograms(V) == [0..(V - 1) -> 0..MaxFreq]

\* InvertedIndex::init(num_words)
init(num_words) ==
    [_finalized |-> FALSE,
     _ft |-> [t \in 0..(num_words - 1) |-> 0],
     _docFrequencyList |-> [t \in 0..(num_words - 1) |-> <<>>],
     _docWeightList |-> [t \in 0..(num_words - 1) |-> <<>>],
     _documentSizes |-> <<>>,
     _documentUniqueSizes |-> <<>>,
     _Ft |-> [t \in 0..(num_words - 1) |-> 0],
     _uniqueWords |-> {},
     _numWords |-> num_words,
     _numDocuments |-> 0,
     _avgDocLen |-> 0,
     _avgUniqueDocLen |-> 0]

\* mutant: addHistogram leaves the finalized flag alone
FinalizedAfterAdd_Kept(f) == f

\* addHistogram: _finalized = false
FinalizedAfterAdd(f) == FALSE

\* mutant: every entry of the histogram is taken for a non-zero one
NonZero_Always(f_dt) == TRUE

\* addHistogram: if (f_dt)
NonZero(f_dt) == f_dt # 0

\* InvertedIndex::addHistogram(histogram), histogram.size() == _numWords
addHistogram(ix, h) ==
    LET nz == {t \in Terms(ix) : NonZero(h[t])}
    IN [ix EXCEPT
          !._finalized = FinalizedAfterAdd(@),
          !._ft = [t \in Terms(ix) |-> IF t \in nz THEN @[t] + 1 ELSE @[t]],
          !._Ft = [t \in Terms(ix) |-> IF t \in nz THEN FAdd(@[t], F(h[t])) ELSE @[t]],
          !._docFrequencyList =
              [t \in Terms(ix) |->
                  IF t \in nz THEN Append(@[t], <<ix._numDocuments, F(h[t])>>) ELSE @[t]],
          !._uniqueWords = @ \cup nz,
          !._documentSizes = Append(@, FSum([k \in 1..ix._numWords |-> F(h[k - 1])])),
          !._documentUniqueSizes = Append(@, Cardinality(nz)),
          !._numDocuments = @ + 1]

\* the tf and idf function objects handed to finalize and query
TfKinds == {"constant"}

IdfKinds == {"constant", "rarity"}

\* tf(invertedIndex, term_id, doc_id, list_id): "constant" is 1, "frequency" is the
\* raw frequency of the posting
tf(kind, ix, term_id, doc_id, list_id) ==
    IF kind = "constant" THEN F(1)
    ELSE ix._docFrequencyList[term_id][list_id][2]

\* idf(collection_index, term_id): "constant" is 1, "rarity" falls with the
\* number of documents of the collection that hold the term and stays
\* positive, "log" is the logarithm of N / f_t in its one property used here:
\* it is 0 for a term that every document of the collection holds
idf(kind, coll, term_id) ==
    IF kind = "constant" THEN F(1)
    ELSE IF kind = "rarity" THEN F(coll._numDocuments + 1 - coll._ft[term_id])
    ELSE F(coll._numDocuments - coll._ft[term_id])

\* apply_tfidf, first pass: the tf*idf weight of every posting
RawWeights(ix, coll, tfk, idfk) ==
    [t \in Terms(ix) |->
        [l \in 1..Len(ix._docFrequencyList[t]) |->
            FMul(tf(tfk, ix, t, ix._docFrequencyList[t][l][1], l), idf(idfk, coll, t))]]

\* the list position of document d in posting list t, 0 if it is not there
ListPos(ix, t, d) ==
    LET ls == {l \in 1..Len(ix._docFrequencyList[t]) : ix._docFrequencyList[t][l][1] = d}
    IN IF ls = {} THEN 0 ELSE CHOOSE l \in ls : \A k \in ls : l <= k

\* apply_tfidf: documentLengths after the square root (document d at d+1)
DocumentLengths(ix, W) ==
    [k \in 1..ix._numDocuments |->
        FSqrt(FSum([j \in 1..ix._numWords |->
                      LET l == ListPos(ix, j - 1, k - 1)
                      IN IF l = 0 THEN 0 ELSE FMul(W[j - 1][l], W[j - 1][l])]))]

\* InvertedIndex::apply_tfidf(collection_index, tf, idf)
apply_tfidf(ix, coll, tfk, idfk) ==
    LET W == RawWeights(ix, coll, tfk, idfk)
        documentLengths == DocumentLengths(ix, W)
    IN [ix EXCEPT !._docWeightList =
          [t \in Terms(ix) |->
              [l \in 1..Len(ix._docFrequencyList[t]) |->
                  FDiv(W[t][l], documentLengths[ix._docFrequencyList[t][l][1] + 1])]]]

\* InvertedIndex::finalize(collection_index, tf, idf); the collection invertedIndex
\* is the invertedIndex itself when self is TRUE
finalize(ix, coll, self, tfk, idfk) ==
    LET a == [ix EXCEPT
                !._avgDocLen = FDiv(FSum(ix._documentSizes), F(Len(ix._documentSizes))),
                !._avgUniqueDocLen =
                    FDiv(FSum([k \in 1..Len(ix._documentUniqueSizes) |->
                                  F(ix._documentUniqueSizes[k])]),
                         F(Len(ix._documentUniqueSizes)))]
        b == apply_tfidf(a, IF self THEN a ELSE coll, tfk, idfk)
    IN [b EXCEPT !._finalized = TRUE]

\* mutant: the heap keeps the pairs in the opposite order (std::less)
PairGreater_Less(a, b) == FLess(a[1], b[1]) \/ (~FLess(b[1], a[1]) /\ a[2] < b[2])

\* std::greater<dist_idx_t>: a > b, which is operator< of std::pair on (b, a)
PairGreater(a, b) == FLess(b[1], a[1]) \/ (~FLess(a[1], b[1]) /\ b[2] < a[2])

\* std::priority_queue<dist_idx_t, ..., std::greater>: the sequence keeps the
\* element that is greater than no other (the top) first
RECURSIVE HeapPush(_, _)
HeapPush(q, x) ==
    IF q = <<>> THEN <<x>>
    ELSE IF PairGreater(Head(q), x) THEN <<x>> \o q
    ELSE <<Head(q)>> \o HeapPush(Tail(q), x)

\* query: the loop that scans the accumulators, i = from .. N-1
RECURSIVE ScanAccumulators(_, _, _, _)
ScanAccumulators(acc, i, numResults, q) ==
    IF i > Len(acc) THEN q
    ELSE LET pushed == HeapPush(q, <<acc[i], i - 1>>)
         IN ScanAccumulators(acc, i + 1, numResults,
                IF Len(pushed) > numResults THEN Tail(pushed) ELSE pushed)

\* std::reverse
Reverse(xs) == [k \in 1..Len(xs) |-> xs[Len(xs) + 1 - k]]

\* weight_list[list_id] as query reads it; g is what a read past the end of
\* the vector yields
WeightAt(ix, t, l, g) ==
    IF l <= Len(ix._docWeightList[t]) THEN ix._docWeightList[t][l] ELSE g

\* query reads a weight that was never stored
ReadsPastEnd(ix, qix) ==
    \E t \in qix._uniqueWords : Len(ix._docWeightList[t]) < Len(ix._docFrequencyList[t])

\* query: the accumulators, one per document (document d at position d+1)
Accumulators(ix, qix, g) ==
    [k \in 1..ix._numDocuments |->
        FSum([j \in 1..ix._numWords |->
                LET t == j - 1
                    l == ListPos(ix, t, k - 1)
                IN IF t \in qix._uniqueWords /\ l # 0
                   THEN FMul(WeightAt(ix, t, l, g), qix._docWeightList[t][1])
                   ELSE 0])]

\* query: the index built from the query histogram alone
QueryIndex(ix, h, tfk, idfk) ==
    finalize(addHistogram(init(ix._numWords), h), ix, FALSE, tfk, idfk)

\* query: result.clear()
ClearResult(r) == <<>>

\* query, from the accumulators on: the new contents of result
TopResults(acc, numResults, r) ==
    LET n == Min(numResults, Len(acc))
        heap == ScanAccumulators(acc, 1, n, <<>>)
    IN ClearResult(r) \o Reverse(SubSeq(heap, 1, n))

\* InvertedIndex::query(histogram, tf, idf, numResults, result): the new
\* contents of result; g is what a read past the end of a weight vector yields
query(ix, h, tfk, idfk, numResults, r, g) ==
    TopResults(Accumulators(ix, QueryIndex(ix, h, tfk, idfk), g), numResults, r)

\* what a read past the end of a weight vector can yield
GarbageWeights == {0, F(1), NaN}

\* state after InvertedIndex(num_words)
IndexInit ==
    /\ \E V \in 1..MaxWords : invertedIndex = init(V)
    /\ file = <<>>
    /\ aborted = FALSE
    /\ lastOp = [op |-> "init"]
    /\ sinceFinal = "never"
    /\ added = <<>>
    /\ fileAdded = <<>>

AddHistogram ==
    /\ ~aborted
    /\ invertedIndex._numDocuments < MaxDocs
    /\ \E h \in Histograms(invertedIndex._numWords) :
          /\ invertedIndex' = addHistogram(invertedIndex, h)
          /\ added' = Append(added, h)
    /\ lastOp' = [op |-> "addHistogram"]
    /\ sinceFinal' = "added"
    /\ UNCHANGED <<file, aborted, fileAdded>>
    /\ UNCHANGED notIndex

\* index.finalize(index, tf, idf)
Finalize ==
    /\ ~aborted
    /\ \E tfk \in TfKinds, idfk \in IdfKinds :
          /\ invertedIndex' = finalize(invertedIndex, invertedIndex, TRUE, tfk, idfk)
          /\ lastOp' = [op |-> "finalize"]
    /\ sinceFinal' = "clean"
    /\ UNCHANGED <<file, aborted, added, fileAdded>>
    /\ UNCHANGED notIndex

\* every idf function object, those that can be zero included
AnyIdfKinds == IdfKinds \cup {"log"}

\* index.finalize(index, tf, idf) with any tf and idf function object
FinalizeAny ==
    /\ ~aborted
    /\ \E tfk \in TfKinds, idfk \in AnyIdfKinds :
          /\ invertedIndex' = finalize(invertedIndex, invertedIndex, TRUE, tfk, idfk)
          /\ lastOp' = [op |-> "finalize", idf |-> idfk]
    /\ sinceFinal' = "clean"
    /\ UNCHANGED <<file, aborted, added, fileAdded>>
    /\ UNCHANGED notIndex

\* the queries made since the index was last changed
QueryRun == IF lastOp.op = "query" THEN lastOp.run ELSE 0

\* an entry left in the caller's vector by an earlier search of another index
StaleEntry == <<F(1), MaxDocs>>

\* the result vector the caller hands to query: one that holds an entry from
\* elsewhere, or the one the query before gave back
PriorResults ==
    {<<StaleEntry>>} \cup (IF lastOp.op = "query" THEN {lastOp.result} ELSE {})

\* index.query(h, tf, idf, numResults, result)
Query ==
    /\ ~aborted
    /\ QueryRun < MaxQueryRun
    /\ \E h \in Histograms(invertedIndex._numWords), tfk \in TfKinds, idfk \in IdfKinds :
          LET qix == QueryIndex(invertedIndex, h, tfk, idfk)
          IN IF ReadsPastEnd(invertedIndex, qix)
             THEN \* undefined behaviour: the read faults or yields some value
                  \/ /\ aborted' = TRUE
                     /\ lastOp' = [op |-> "query fault"]
                  \/ \E g \in GarbageWeights :
                       LET acc == Accumulators(invertedIndex, qix, g)
                       IN \E numResults \in 0..MaxResults, prior \in PriorResults :
                            /\ lastOp' = [op |-> "query", run |-> QueryRun + 1,
                                          fin |-> invertedIndex._finalized,
                                          R |-> numResults, acc |-> acc,
                                          before |-> prior,
                                          result |-> TopResults(acc, numResults, prior)]
                            /\ UNCHANGED aborted
             ELSE LET acc == Accumulators(invertedIndex, qix, 0)
                  IN \E numResults \in 0..MaxResults, prior \in PriorResults :
                       /\ lastOp' = [op |-> "query", run |-> QueryRun + 1,
                                     fin |-> invertedIndex._finalized,
                                     R |-> numResults, acc |-> acc,
                                     before |-> prior,
                                     result |-> TopResults(acc, numResults, prior)]
                       /\ UNCHANGED aborted
    /\ UNCHANGED <<invertedIndex, file, sinceFinal, added, fileAdded>>
    /\ UNCHANGED notIndex

(* The index file is a stream of scalars: io::write puts a scalar as it is, a  *)
(* vector or set as its size followed by its elements, a pair as its first    *)
(* and then its second member; io::read takes them from the stream in turn.   *)

\* what io::write and io::read do with a member of the index, by its type:
\* uint and float are "scalar", vector<float> and vector<uint> indexed by term
\* are "vector0", those indexed by document are "vector", set<uint32_t> is
\* "set", vector<vector<float> > is "lists" and
\* vector<vector<pair<uint32_t, float> > > is "pairlists"
Shape(member) ==
    CASE member \in {"_numWords", "_numDocuments", "_avgDocLen", "_avgUniqueDocLen"} -> "scalar"
      [] member \in {"_Ft", "_ft"} -> "vector0"
      [] member \in {"_documentSizes", "_documentUniqueSizes"} -> "vector"
      [] member = "_uniqueWords" -> "set"
      [] member = "_docWeightList" -> "lists"
      [] member = "_docFrequencyList" -> "pairlists"

\* the elements of a std::set in iteration order
RECURSIVE SetSeq(_)
SetSeq(S) ==
    IF S = {} THEN <<>>
    ELSE LET m == CHOOSE x \in S : \A y \in S : x <= y
         IN <<m>> \o SetSeq(S \ {m})

RECURSIVE Concat(_)
Concat(ss) == IF ss = <<>> THEN <<>> ELSE Head(ss) \o Concat(Tail(ss))

\* the expression &v[0] of the bulk branch of io::write and io::read for a
\* vector of arithmetic elements, evaluated on a vector of n elements, ends
\* the process
BulkStops(n, ub) == n = 0 /\ ub = "abort"

\* io::write of the n vectors of floats v[k - 1], k = from..n, one after the
\* other
RECURSIVE WriteLists(_, _, _, _)
WriteLists(v, from, n, ub) ==
    IF from > n THEN [s |-> <<>>, ok |-> TRUE]
    ELSE LET list == v[from - 1]
         IN IF BulkStops(Len(list), ub) THEN [s |-> <<Len(list)>>, ok |-> FALSE]
            ELSE LET rest == WriteLists(v, from + 1, n, ub)
                 IN [s |-> <<Len(list)>> \o list \o rest.s, ok |-> rest.ok]

\* io::write(os, v): the scalars put on the stream, and whether the call
\* returned; ub is what &v[0] does on an empty vector
write(shape, v, ub) ==
    CASE shape = "scalar" -> [s |-> <<v>>, ok |-> TRUE]
      [] shape = "vector" ->
            IF BulkStops(Len(v), ub) THEN [s |-> <<Len(v)>>, ok |-> FALSE]
            ELSE [s |-> <<Len(v)>> \o v, ok |-> TRUE]
      [] shape = "vector0" ->
            LET n == Cardinality(DOMAIN v)
            IN IF BulkStops(n, ub) THEN [s |-> <<n>>, ok |-> FALSE]
               ELSE [s |-> <<n>> \o [k \in 1..n |-> v[k - 1]], ok |-> TRUE]
      [] shape = "set" -> [s |-> <<Cardinality(v)>> \o SetSeq(v), ok |-> TRUE]
      [] shape = "lists" ->
            LET n == Cardinality(DOMAIN v)
                w == WriteLists(v, 1, n, ub)
            IN [s |-> <<n>> \o w.s, ok |-> w.ok]
      [] shape = "pairlists" ->
            LET n == Cardinality(DOMAIN v)
            IN [s |-> <<n>> \o Concat([k \in 1..n |->
                         <<Len(v[k - 1])>> \o
                         Concat([l \in 1..Len(v[k - 1]) |->
                                   <<v[k - 1][l][1], v[k - 1][l][2]>>])]),
                ok |-> TRUE]

\* io::read of n vectors whose elements take width scalars each, from
\* position p on: the vectors read so far are in acc; a vector of floats
\* (width 1) is read by the bulk branch
RECURSIVE ReadLists(_, _, _, _, _, _)
ReadLists(s, p, n, width, acc, ub) ==
    IF n = 0 THEN [val |-> acc, next |-> p, ok |-> TRUE]
    ELSE LET len == s[p]
             list == [l \in 1..len |->
                        IF width = 1 THEN s[p + l]
                        ELSE <<s[p + 2 * l - 1], s[p + 2 * l]>>]
         IN IF width = 1 /\ BulkStops(len, ub)
            THEN [val |-> Append(acc, list), next |-> p + 1, ok |-> FALSE]
            ELSE ReadLists(s, p + 1 + len * width, n - 1, width, Append(acc, list), ub)

\* io::read(is, v) at position p of the stream: the value read, the
\* position after it, and whether the call returned
read(shape, s, p, ub) ==
    CASE shape = "scalar" -> [val |-> s[p], next |-> p + 1, ok |-> TRUE]
      [] shape = "vector" ->
            [val |-> [k \in 1..s[p] |-> s[p + k]], next |-> p + 1 + s[p],
             ok |-> ~BulkStops(s[p], ub)]
      [] shape = "vector0" ->
            [val |-> [t \in 0..(s[p] - 1) |-> s[p + 1 + t]], next |-> p + 1 + s[p],
             ok |-> ~BulkStops(s[p], ub)]
      [] shape = "set" ->
            [val |-> {s[p + k] : k \in 1..s[p]}, next |-> p + 1 + s[p], ok |-> TRUE]
      [] shape \in {"lists", "pairlists"} ->
            LET r == ReadLists(s, p + 1, s[p], IF shape = "lists" THEN 1 ELSE 2,
                               <<>>, ub)
            IN [val |-> [t \in 0..(Len(r.val) - 1) |-> r.val[t + 1]],
                next |-> r.next, ok |-> r.ok]

\* operator<<: the members in the order they are written
WriteOrder ==
    <<"_numWords", "_numDocuments", "_avgDocLen", "_avgUniqueDocLen", "_Ft",
      "_uniqueWords", "_ft", "_docFrequencyList", "_docWeightList",
      "_documentSizes", "_documentUniqueSizes">>

\* mutant: _ft is read where _Ft was written, and _Ft where _ft was
ReadOrder_Swapped ==
    <<"_numWords", "_numDocuments", "_avgDocLen", "_avgUniqueDocLen", "_ft",
      "_uniqueWords", "_Ft", "_docFrequencyList", "_docWeightList",
      "_documentSizes", "_documentUniqueSizes">>

\* operator>>: the members in the order they are read
ReadOrder ==
    <<"_numWords", "_numDocuments", "_avgDocLen", "_avgUniqueDocLen", "_Ft",
      "_uniqueWords", "_ft", "_docFrequencyList", "_docWeightList",
      "_documentSizes", "_documentUniqueSizes">>

\* operator<<, after the assertion: the io::write calls from the k-th on
RECURSIVE WriteMembers(_, _, _)
WriteMembers(ix, k, ub) ==
    IF k > Len(WriteOrder) THEN [s |-> <<>>, ok |-> TRUE]
    ELSE LET w == write(Shape(WriteOrder[k]), ix[WriteOrder[k]], ub)
         IN IF ~w.ok THEN w
            ELSE LET rest == WriteMembers(ix, k + 1, ub)
                 IN [s |-> w.s \o rest.s, ok |-> rest.ok]

\* the stream of an operator<< that returns
Written(ix) == WriteMembers(ix, 1, "null").s

\* operator>>, the io::read calls from the k-th on, the stream at position p
RECURSIVE ReadMembers(_, _, _, _, _)
ReadMembers(ix, s, p, k, ub) ==
    IF k > Len(ReadOrder) THEN [ix |-> ix, ok |-> TRUE]
    ELSE LET r == read(Shape(ReadOrder[k]), s, p, ub)
             now == [ix EXCEPT ![ReadOrder[k]] = r.val]
         IN IF ~r.ok THEN [ix |-> now, ok |-> FALSE]
            ELSE ReadMembers(now, s, r.next, k + 1, ub)

\* operator>>: init(), then the members in the order they are read, then
\* _finalized = true
ReadIndex(s, ub) ==
    LET r == ReadMembers(init(0), s, 1, 1, ub)
    IN [ix |-> IF r.ok THEN [r.ix EXCEPT !._finalized = TRUE] ELSE r.ix, ok |-> r.ok]

\* the index of an operator>> that returns
Read(s) == ReadIndex(s, "null").ix

\* mutant: operator<< does not assert (the assertion is compiled out)
SaveAssert_None(finalized) == TRUE

\* operator<<: assert(index._finalized)
SaveAssert(finalized) == finalized

\* index.save(filename): the file is opened for writing, which empties it,
\* then operator<< asserts _finalized and writes the fields; file holds what
\* was handed to the stream
Save ==
    /\ ~aborted
    /\ IF SaveAssert(invertedIndex._finalized)
       THEN LET w == WriteMembers(invertedIndex, 1, subscript)
            IN /\ file' = <<w.s>>
               /\ fileAdded' = added
               /\ aborted' = ~w.ok
               /\ lastOp' = [op |-> "save", asserted |-> TRUE, returned |-> w.ok]
       ELSE /\ aborted' = TRUE
            /\ file' = <<>>
            /\ fileAdded' = <<>>
            /\ lastOp' = [op |-> "save", asserted |-> FALSE, returned |-> FALSE]
    /\ UNCHANGED <<invertedIndex, sinceFinal, added>>
    /\ UNCHANGED notIndex

\* index.load(filename) of a file that holds an index
Load ==
    /\ ~aborted
    /\ file # <<>>
    /\ LET r == ReadIndex(file[1], subscript)
       IN /\ invertedIndex' = r.ix
          /\ aborted' = ~r.ok
          /\ lastOp' = [op |-> "load", differed |-> invertedIndex # r.ix,
                        returned |-> r.ok]
          /\ sinceFinal' = IF r.ok THEN "clean" ELSE "never"
          /\ added' = IF r.ok THEN fileAdded ELSE <<>>
    /\ UNCHANGED <<file, fileAdded>>
    /\ UNCHANGED notIndex

IndexNext ==
    \/ AddHistogram
    \/ Finalize
    \/ Query
    \/ Save
    \/ Load

\* the index is not used while the driver runs
IndexIdle ==
    /\ invertedIndex = init(1)
    /\ file = <<>>
    /\ aborted = FALSE
    /\ lastOp = [op |-> "init"]
    /\ sinceFinal = "never"
    /\ added = <<>>
    /\ fileAdded = <<>>

\* the driver is not used while the index is built and queried
DriverIdle ==
    /\ DriverInit
    /\ numFiles = 0

(***************************************************************************)
(* Part III: io::write / io::read and PropertyWriterT                      *)
(***************************************************************************)

(* An element type T is a record: [k |-> "int", w |-> sizeof] for the signed *)
(* and [k |-> "uint", w |-> sizeof] for the unsigned integers, [k |->        *)
(* "float"] (a float is its 32 bits), [k |-> "string"], [k |-> "array", of   *)
(* |-> T, n |-> N], [k |-> "pair", first |-> T1, second |-> T2], [k |->      *)
(* "vector", of |-> T], [k |-> "set", of |-> T], [k |-> "map", key |-> T1,   *)
(* val |-> T2].  A string is the sequence of its character codes, an array   *)
(* or vector a sequence, a pair a 2-tuple, a map a function.  A stream is a  *)
(* sequence of bytes.                                                        *)

Int8 == [k |-> "int", w |-> 1]
Int16 == [k |-> "int", w |-> 2]
Int32 == [k |-> "int", w |-> 4]
Int64 == [k |-> "int", w |-> 8]
UInt16 == [k |-> "uint", w |-> 2]
Float == [k |-> "float"]
String == [k |-> "string"]
Array(T, n) == [k |-> "array", of |-> T, n |-> n]
Pair(T1, T2) == [k |-> "pair", first |-> T1, second |-> T2]
Vector(T) == [k |-> "vector", of |-> T]
Set(T) == [k |-> "set", of |-> T]
Map(T1, T2) == [k |-> "map", key |-> T1, val |-> T2]

\* boost::is_arithmetic<T>
IsArithmetic(T) == T.k \in {"int", "uint", "float"}

\* sizeof(T) of an arithmetic T
SizeOf(T) == IF T.k = "float" THEN 4 ELSE T.w

\* the object representation of an integer: w bytes, lowest first
RECURSIVE ObjectBytes(_, _)
ObjectBytes(v, w) ==
    IF w = 0 THEN <<>> ELSE <<v % 256>> \o ObjectBytes(v \div 256, w - 1)

\* the integer whose object representation is bs
RECURSIVE ObjectValue(_, _)
ObjectValue(bs, signed) ==
    IF Len(bs) = 1
    THEN (IF signed /\ bs[1] >= 128 THEN bs[1] - 256 ELSE bs[1])
    ELSE bs[1] + 256 * ObjectValue(Tail(bs), signed)

\* _write(os, v): os.write(&v, sizeof(T))
ScalarWrite(T, v) == ObjectBytes(v, SizeOf(T))

\* _read(is, v): is.read(&v, sizeof(T)) at position p (the first byte of the
\* stream is at position 0)
ScalarRead(T, bs, p) ==
    [val |-> ObjectValue(SubSeq(bs, p + 1, p + SizeOf(T)), T.k # "uint"),
     next |-> p + SizeOf(T)]

\* operator< of the key type of a set or map: integers, or strings compared
\* character by character
RECURSIVE KeyLess(_, _, _)
KeyLess(T, a, b) ==
    IF T.k # "string" THEN a < b
    ELSE IF b = <<>> THEN FALSE
    ELSE IF a = <<>> THEN TRUE
    ELSE IF Head(a) # Head(b) THEN Head(a) < Head(b)
    ELSE KeyLess(T, Tail(a), Tail(b))

\* the elements of a std::set<T>, or the keys of a std::map<T, .>, in
\* iteration order
RECURSIVE InOrder(_, _)
InOrder(T, S) ==
    IF S = {} THEN <<>>
    ELSE LET m == CHOOSE x \in S : \A y \in S \ {x} : KeyLess(T, x, y)
         IN <<m>> \o InOrder(T, S \ {m})

\* The expression &v[0] of the bulk branches is evaluated on every vector
\* of arithmetic elements, the empty one included, where operator[] has
\* no element to refer to: the library either hands back the null begin
\* pointer, and the transfer of 0 bytes does nothing, or (built with its
\* assertions) stops the process.
SubscriptOutcomes == {"null", "abort"}

\* the library is one of the two for the whole run
LibraryInit == subscript \in SubscriptOutcomes

\* no vector is written or read
LibraryIdle == subscript = "null"

\* the result of a transfer that stopped the process
Stopped(bytes) == [bytes |-> bytes, ok |-> FALSE]

RECURSIVE io_write(_, _, _)
RECURSIVE WriteAll(_, _)

\* consecutive write calls on the <<type, value>> pairs of items
WriteAll(items, ub) ==
    IF items = <<>> THEN [bytes |-> <<>>, ok |-> TRUE]
    ELSE LET h == io_write(items[1][1], items[1][2], ub)
         IN IF ~h.ok THEN h
            ELSE LET r == WriteAll(Tail(items), ub)
                 IN [bytes |-> h.bytes \o r.bytes, ok |-> r.ok]

\* the elements of a sequence, each with the type T
Each(T, vs) == [i \in 1..Len(vs) |-> <<T, vs[i]>>]

\* the size written ahead of the elements of a vector, set or map
SizeType == Int64

\* io::write(os, v) for a v of type T; ub is the outcome of &v[0] on an
\* empty vector
io_write(T, v, ub) ==
    CASE IsArithmetic(T) -> [bytes |-> ScalarWrite(T, v), ok |-> TRUE]
      [] T.k = "string" -> WriteAll(<<<<Int32, Len(v)>>>> \o Each(Int8, v), ub)
      [] T.k = "array" -> WriteAll(Each(T.of, v), ub)
      [] T.k = "vector" ->
            IF IsArithmetic(T.of)
            THEN LET size == ScalarWrite(SizeType, Len(v))
                 IN IF Len(v) = 0 /\ ub = "abort" THEN Stopped(size)
                    ELSE WriteAll(<<<<SizeType, Len(v)>>>> \o Each(T.of, v), ub)
            ELSE WriteAll(<<<<SizeType, Len(v)>>>> \o Each(T.of, v), ub)
      [] T.k = "pair" -> WriteAll(<<<<T.first, v[1]>>, <<T.second, v[2]>>>>, ub)
      [] T.k = "set" ->
            WriteAll(<<<<SizeType, Cardinality(v)>>>> \o Each(T.of, InOrder(T.of, v)), ub)
      [] T.k = "map" ->
            LET keys == InOrder(T.key, DOMAIN v)
            IN WriteAll(<<<<SizeType, Cardinality(DOMAIN v)>>>> \o
                        Each(Pair(T.key, T.val), [i \in 1..Len(keys) |-> <<keys[i], v[keys[i]]>>]), ub)

RECURSIVE io_read(_, _, _, _)
RECURSIVE ReadN(_, _, _, _, _)

\* a read that did not return a value: the process stopped, or the stream
\* ended before the value did
NoValue(p) == [val |-> <<>>, next |-> p, ok |-> FALSE]

\* the stream holds size bytes from position p on
Holds(bs, p, size) == p >= 0 /\ size >= 0 /\ p + size <= Len(bs)

\* n consecutive read calls of type T from position p
ReadN(T, bs, p, n, ub) ==
    IF n < 0 THEN NoValue(p)
    ELSE IF n = 0 THEN [val |-> <<>>, next |-> p, ok |-> TRUE]
    ELSE LET h == io_read(T, bs, p, ub)
         IN IF ~h.ok THEN NoValue(h.next)
            ELSE LET r == ReadN(T, bs, h.next, n - 1, ub)
                 IN [val |-> <<h.val>> \o r.val, next |-> r.next, ok |-> r.ok]

\* the map built by inserting the pairs of ps one after the other: insert
\* keeps the pair already stored under a key
RECURSIVE InsertAll(_)
InsertAll(ps) ==
    IF ps = <<>> THEN <<>>
    ELSE LET rest == InsertAll(SubSeq(ps, 1, Len(ps) - 1))
             last == ps[Len(ps)]
         IN IF last[1] \in DOMAIN rest THEN rest
            ELSE [x \in DOMAIN rest \cup {last[1]} |->
                     IF x = last[1] THEN last[2] ELSE rest[x]]

\* the elements of a vector, set or map, read after the size at position p
Sized(T, bs, p, ub) ==
    IF ~Holds(bs, p, SizeOf(SizeType)) THEN NoValue(p)
    ELSE LET size == ScalarRead(SizeType, bs, p)
         IN ReadN(T, bs, size.next, size.val, ub)

\* io::read(is, v) into a v of type T from position p: the value read, the
\* position after it, and whether the call returned a value
io_read(T, bs, p, ub) ==
    CASE IsArithmetic(T) ->
            IF ~Holds(bs, p, SizeOf(T)) THEN NoValue(p)
            ELSE LET r == ScalarRead(T, bs, p)
                 IN [val |-> r.val, next |-> r.next, ok |-> TRUE]
      [] T.k = "string" ->
            IF ~Holds(bs, p, SizeOf(Int32)) THEN NoValue(p)
            ELSE LET s == ScalarRead(Int32, bs, p)
                 IN ReadN(Int8, bs, s.next, s.val, ub)
      [] T.k = "array" -> ReadN(T.of, bs, p, T.n, ub)
      [] T.k = "vector" ->
            LET r == Sized(T.of, bs, p, ub)
            IN IF IsArithmetic(T.of) /\ r.ok /\ r.val = <<>> /\ ub = "abort"
               THEN NoValue(r.next)
               ELSE r
      [] T.k = "pair" ->
            LET a == io_read(T.first, bs, p, ub)
            IN IF ~a.ok THEN a
               ELSE LET b == io_read(T.second, bs, a.next, ub)
                    IN [val |-> <<a.val, b.val>>, next |-> b.next, ok |-> b.ok]
      [] T.k = "set" ->
            LET r == Sized(T.of, bs, p, ub)
            IN [val |-> {r.val[i] : i \in 1..Len(r.val)}, next |-> r.next, ok |-> r.ok]
      [] T.k = "map" ->
            LET r == Sized(Pair(T.key, T.val), bs, p, ub)
            IN [val |-> IF r.ok THEN InsertAll(r.val) ELSE <<>>,
                next |-> r.next, ok |-> r.ok]

\* the element types a writer is instantiated with, one of each shape and
\* some nestings
ElementTypes ==
    <<Int8, Int16, Int64, UInt16, Float, String,
      Array(Int16, 2), Pair(Int32, String), Vector(Float), Vector(String),
      Set(Int32), Map(String, Int16), Vector(Vector(Float)),
      Map(Int8, Set(String))>>

\* float bit patterns: 0.0f and 1.0f
FloatZero == 0
FloatOne == 1065353216

\* the elements handed to push_back and insert, by element type
Values(t) ==
    CASE t = 1 -> {0 - 128, 127}
      [] t = 2 -> {0 - 2, 258}
      [] t = 3 -> {0 - 1, 65537}
      [] t = 4 -> {0, 65535}
      [] t = 5 -> {FloatZero, FloatOne}
      [] t = 6 -> {<<>>, <<98, 97>>}
      [] t = 7 -> {<<0 - 1, 258>>, <<0, 0>>}
      [] t = 8 -> {<<7, <<>>>>, <<0 - 7, <<97>>>>}
      [] t = 9 -> {<<>>, <<FloatOne, FloatZero>>}
      [] t = 10 -> {<<>>, <<<<97>>, <<>>>>}
      [] t = 11 -> {{}, {5, 0 - 5, 300}}
      [] t = 12 -> {<<>>, [x \in {<<98>>, <<97, 98>>} |-> Len(x) - 2]}
      [] t = 13 -> {<<<<>>>>, <<<<FloatOne>>, <<FloatZero, FloatOne>>>>}
      [] t = 14 -> {[x \in {0 - 3} |-> {}], [x \in {4, 0 - 4} |-> {<<97>>, <<>>}]}

\* the positions insert is called with: the first slot, and two slots
\* beyond it that leave slots between them
Positions == {0, 3, 5}
\* at most MaxElements elements are written
MaxElements == 3

\* PropertyWriterT<T>::version()
version == 2

\* boost::lexical_cast<std::string> of an integer: its decimal digits
RECURSIVE lexical_cast(_)
lexical_cast(n) ==
    IF n < 0 THEN <<45>> \o lexical_cast(0 - n)
    ELSE IF n < 10 THEN <<48 + n>>
    ELSE lexical_cast(n \div 10) \o <<48 + (n % 10)>>

\* imdb::nameof<T>(): a name of the element type, one per type
nameof(t) == <<84>> \o lexical_cast(t)

\* the keys "__version", "__typeinfo", "__features" and "__offsets"
Key_version == <<95, 95, 118, 101, 114, 115, 105, 111, 110>>
Key_typeinfo == <<95, 95, 116, 121, 112, 101, 105, 110, 102, 111>>
Key_features == <<95, 95, 102, 101, 97, 116, 117, 114, 101, 115>>
Key_offsets == <<95, 95, 111, 102, 102, 115, 101, 116, 115>>

\* _map[key] = value
MapSet(m, key, value) ==
    [x \in DOMAIN m \cup {key} |-> IF x = key THEN value ELSE m[x]]

\* strmap_t and std::vector<int64_t>
StrMap == Map(String, String)
OffsetTable == Vector(Int64)

\* mutant: tellp() is always the start of the file
tellp_Start(ofs) == 0

\* _ofs.tellp()
tellp(ofs) == Len(ofs.bytes)

\* the default constructor: no file is open, the table and the map are empty
WriterInit ==
    /\ elemType \in 1..Len(ElementTypes)
    /\ _ofs = [is_open |-> FALSE, bytes |-> <<>>]
    /\ _offset = <<>>
    /\ _map = <<>>
    /\ writerState = "constructed"
    /\ elements = <<>>
    /\ writerOp = [op |-> "construct"]

\* open(filename): the file is created or truncated; if that fails, the
\* exception leaves the writer as it was
Open ==
    /\ writerState = "constructed"
    /\ ~_ofs.is_open
    /\ \E opened \in BOOLEAN :
         IF opened
         THEN /\ _ofs' = [is_open |-> TRUE, bytes |-> <<>>]
              /\ _map' = MapSet(MapSet(_map, Key_version, lexical_cast(version)),
                                Key_typeinfo, nameof(elemType))
              /\ writerOp' = [op |-> "open", thrown |-> FALSE]
         ELSE /\ UNCHANGED <<_ofs, _map>>
              /\ writerOp' = [op |-> "open", thrown |-> TRUE]
    /\ UNCHANGED <<elemType, _offset, writerState, elements>>
    /\ UNCHANGED notWriter

\* the write of one element that push_back and insert end with, after the
\* table became table
WriteElement(op, table, pos, element) ==
    LET w == io_write(ElementTypes[elemType], element, subscript)
    IN /\ _offset' = table
       /\ _ofs' = [_ofs EXCEPT !.bytes = @ \o w.bytes]
       /\ writerState' = IF w.ok THEN writerState ELSE "stopped"
       /\ elements' = Append(elements, [op |-> op, pos |-> pos, at |-> tellp(_ofs),
                                        val |-> element, bytes |-> w.bytes,
                                        returned |-> w.ok])
       /\ writerOp' = [op |-> op, pos |-> pos, returned |-> w.ok]

\* the assertion push_back and insert start with fails: the process stops
AssertOpen(op) ==
    /\ ~_ofs.is_open
    /\ writerState' = "stopped"
    /\ writerOp' = [op |-> op, pos |-> 0 - 1, returned |-> FALSE]
    /\ UNCHANGED <<_ofs, _offset, elements>>

\* push_back(element)
PushBack ==
    /\ writerState = "constructed"
    /\ Len(elements) < MaxElements
    /\ \E element \in Values(elemType) :
         \/ AssertOpen("push_back")
         \/ /\ _ofs.is_open
            /\ WriteElement("push_back", Append(_offset, tellp(_ofs)),
                            Len(_offset), element)
    /\ UNCHANGED <<elemType, _map>>
    /\ UNCHANGED notWriter

\* _offset.resize(n, -1) on a table shorter than n
Resize(table, n) ==
    table \o [i \in 1..(n - Len(table)) |-> 0 - 1]

\* mutant: insert appends, as push_back does
InsertAt_Append(table, pos, at) == Append(table, at)

\* the table after insert(element, pos), written at offset at
InsertAt(table, pos, at) ==
    LET resized == IF Len(table) <= pos THEN Resize(table, pos + 1) ELSE table
    IN [resized EXCEPT ![pos + 1] = at]

\* insert(element, pos)
Insert ==
    /\ writerState = "constructed"
    /\ Len(elements) < MaxElements
    /\ \E element \in Values(elemType), pos \in Positions :
         \/ AssertOpen("insert")
         \/ /\ _ofs.is_open
            /\ WriteElement("insert", InsertAt(_offset, pos, tellp(_ofs)),
                            pos, element)
    /\ UNCHANGED <<elemType, _map>>
    /\ UNCHANGED notWriter

\* the map the destructor writes
ClosingMap(m, p_offsets) ==
    MapSet(MapSet(m, Key_features, lexical_cast(0)),
           Key_offsets, lexical_cast(p_offsets))

\* mutant: the map is written ahead of the table
TrailerOrder_MapFirst == <<"_map", "_offset", "p_map">>

\* what the destructor writes: the offset table, the map, the position of
\* the map
TrailerOrder == <<"_offset", "_map", "p_map">>

RECURSIVE Trailer(_, _, _, _, _, _)
Trailer(bytes, table, m, p_map, k, ub) ==
    IF k > Len(TrailerOrder) THEN [bytes |-> bytes, ok |-> TRUE]
    ELSE LET part == TrailerOrder[k]
             w == CASE part = "_offset" -> io_write(OffsetTable, table, ub)
                    [] part = "_map" -> io_write(StrMap, m, ub)
                    [] part = "p_map" -> io_write(Int64, p_map, ub)
             at == Len(bytes)
         IN IF ~w.ok THEN Stopped(bytes \o w.bytes)
            ELSE Trailer(bytes \o w.bytes, table, m,
                         IF part = "_offset" THEN at + Len(w.bytes) ELSE p_map,
                         k + 1, ub)

\* ~PropertyWriterT()
Destroy ==
    /\ writerState = "constructed"
    /\ IF ~_ofs.is_open
       THEN /\ UNCHANGED <<_ofs, _map>>
            /\ writerState' = "destroyed"
            /\ writerOp' = [op |-> "destroy", wasOpen |-> FALSE, returned |-> TRUE]
       ELSE LET p_offsets == tellp(_ofs)
                m == ClosingMap(_map, p_offsets)
                w == Trailer(_ofs.bytes, _offset, m, 0, 1, subscript)
            IN /\ _map' = m
               /\ _ofs' = [is_open |-> ~w.ok, bytes |-> w.bytes]
               /\ writerState' = IF w.ok THEN "destroyed" ELSE "stopped"
               /\ writerOp' = [op |-> "destroy", wasOpen |-> TRUE, returned |-> w.ok]
    /\ UNCHANGED <<elemType, _offset, elements>>
    /\ UNCHANGED notWriter

WriterNext ==
    \/ Open
    \/ PushBack
    \/ Insert
    \/ Destroy

\* no writer is used while the driver or the index is exercised
WriterIdle ==
    /\ WriterInit
    /\ elemType = 1

(***************************************************************************)
(* Part IV: linear_search and LinearSearchManager                          *)
(***************************************************************************)

(* An entry of the result vector is the pair <<distance, index>>.  The      *)
(* vector is a max-heap under operator< of std::pair while linear_search    *)
(* runs; the heap is kept here as the ascending sequence of its entries, so *)
(* that its front, the greatest entry, is the last one.                     *)

MaxFeatures == 3
MaxDist == 2
MaxNumResults == 3
\* at most MaxCalls searches are made with the vector
MaxCalls == 2

\* what distfn returns
Distances == 0..MaxDist

\* operator< of std::pair<double, index_t>
PairLess(a, b) == a[1] < b[1] \/ (a[1] = b[1] /\ a[2] < b[2])

\* push_heap after push_back(e): e joins the heap
push_heap(h, e) ==
    LET below == SelectSeq(h, LAMBDA x : ~PairLess(e, x))
        above == SelectSeq(h, LAMBDA x : PairLess(e, x))
    IN below \o <<e>> \o above

\* make_heap: the entries of the vector become a heap
RECURSIVE make_heap(_)
make_heap(v) ==
    IF v = <<>> THEN <<>>
    ELSE push_heap(make_heap(SubSeq(v, 1, Len(v) - 1)), v[Len(v)])

\* result.front() of a heap
front(h) == h[Len(h)]

\* pop_heap moves the front to the back, result.back() = e overwrites it,
\* push_heap lets e join
Replace(h, e) == push_heap(SubSeq(h, 1, Len(h) - 1), e)

\* mutant: no later feature replaces the front
Farther_Never(h, dist) == FALSE

\* result.front().first > dist
Farther(h, dist) == front(h)[1] > dist

\* the loop over features 1..n of linear_search; dist[i] is distfn of the
\* query and feature i - 1
RECURSIVE Scan(_, _, _, _)
Scan(h, dist, n, num_results) ==
    IF n = 0 THEN h
    ELSE LET before == Scan(h, dist, n - 1, num_results)
             e == <<dist[n], n - 1>>
         IN IF Len(before) < num_results THEN push_heap(before, e)
            ELSE IF before # <<>> /\ Farther(before, dist[n]) THEN Replace(before, e)
            ELSE before

\* sort_heap: the entries in ascending order
sort_heap(h) == h

\* linear_search(query_feature, features, result, num_results, distfn): the
\* vector result afterwards
linear_search(dist, r, num_results) ==
    sort_heap(Scan(IF Len(r) > 0 THEN make_heap(r) ELSE r, dist, Len(dist),
                   num_results))

\* LinearSearchManager::query(descr, num_results, result)
ManagerQuery(dist, r, num_results) ==
    LET max_num_results == Min(num_results, Len(dist))
    IN linear_search(dist, r, max_num_results)

\* the manager is constructed over the features of a property file; the
\* caller's vector is empty
SearchInit ==
    /\ numFeatures \in 0..MaxFeatures
    /\ result = <<>>
    /\ numCalls = 0
    /\ searchOp = [op |-> "construct"]

\* a call of linear_search on the features with the caller's vector
LinearSearch ==
    /\ numCalls < MaxCalls
    /\ numCalls' = numCalls + 1
    /\ \E num_results \in 0..MaxNumResults, dist \in [1..numFeatures -> Distances] :
         /\ result' = linear_search(dist, result, num_results)
         /\ searchOp' = [op |-> "linear_search", num_results |-> num_results,
                         dist |-> dist, before |-> result]
    /\ UNCHANGED numFeatures
    /\ UNCHANGED notSearch

\* a call of LinearSearchManager::query with the caller's vector
SearchQuery ==
    /\ numCalls < MaxCalls
    /\ numCalls' = numCalls + 1
    /\ \E num_results \in 0..MaxNumResults, dist \in [1..numFeatures -> Distances] :
         /\ result' = ManagerQuery(dist, result, num_results)
         /\ searchOp' = [op |-> "query", num_results |-> num_results,
                         dist |-> dist, before |-> result]
    /\ UNCHANGED numFeatures
    /\ UNCHANGED notSearch

\* the caller empties the vector
ResultClear ==
    /\ result # <<>>
    /\ result' = <<>>
    /\ searchOp' = [op |-> "clear"]
    /\ UNCHANGED <<numFeatures, numCalls>>
    /\ UNCHANGED notSearch

SearchNext ==
    \/ LinearSearch
    \/ SearchQuery
    \/ ResultClear

\* no search is made while the other parts are exercised
SearchIdle ==
    /\ SearchInit
    /\ numFeatures = 0

(***************************************************************************)
(* Part V: the quantizer and the histogram builder                         *)
(***************************************************************************)

\* largest vocabulary handed to a quantizer (K ranges over 1..MaxCentroids)
MaxCentroids == 3
\* largest finite distance of a sample to a centroid
MaxSampleDist == 1
\* most samples handed to quantize_samples_parallel
MaxSamples == 1
\* numeric_limits<float>::max(): above every finite distance of the model
FloatMax == 2147483647

\* std::vector::resize(n, fill): the first n entries are kept, new ones filled
resize(v, n, fill) == [k \in 1..n |-> IF k <= Len(v) THEN v[k] ELSE fill]

\* operator<= on float values: false whenever an operand is NaN
FLeq(a, b) == a # NaN /\ b # NaN /\ (a = b \/ FLess(a, b))

\* the distance functor (a template argument of the quantizer): a sample is
\* kept as its distances to the centroids
dist_fn(sample, centroid) == sample[centroid]

\* the test that makes centroid i the closest one so far
Closer_Strict(distance, minDistance) == FLess(distance, minDistance)
Closer(distance, minDistance) == FLeq(distance, minDistance)

\* the loop of quantize_hard from centroid i on (i counts from 1 here, the
\* code's indices from 0): the value of closest when the loop ends
RECURSIVE Closest(_, _, _, _, _)
Closest(sample, voc, i, closest, minDistance) ==
    IF i > Len(voc) THEN closest
    ELSE LET distance == dist_fn(sample, voc[i])
         IN IF Closer(distance, minDistance)
            THEN Closest(sample, voc, i + 1, i - 1, distance)
            ELSE Closest(sample, voc, i + 1, closest, minDistance)

\* the output vector after resize(): its earlier entries are kept
Resized(quantized, K) == resize(quantized, K, 0)

\* quantize_hard::operator(): the output vector it leaves
quantize_hard(sample, voc, quantized) ==
    LET closest == Closest(sample, voc, 1, 0, FloatMax)
        resized == Resized(quantized, Len(voc))
    IN [k \in 1..Len(resized) |-> IF k = closest + 1 THEN 1 ELSE resized[k]]

\* quantize_samples_parallel with the hard quantizer: the iterations write
\* distinct entries of the output vector
quantize_samples_parallel(samples, voc, quantized) ==
    LET out == resize(quantized, Len(samples), <<>>)
    IN [i \in 1..Len(samples) |-> quantize_hard(samples[i], voc, out[i])]

\* the distances a sample can have to a centroid
SampleDistances == (0..MaxSampleDist) \cup {Inf, NaN}
Samples(voc) == [1..Len(voc) -> SampleDistances]
Vocabularies == {[k \in 1..K |-> k] : K \in 1..MaxCentroids}
SampleSets(voc) == UNION {[1..n -> Samples(voc)] : n \in 0..MaxSamples}

\* a vocabulary was loaded, no sample has been quantized
QuantizerInit ==
    /\ vocabulary \in Vocabularies
    /\ quantized_sample = <<>>
    /\ quantized_samples = <<>>
    /\ quantOp = [op |-> "none"]

\* one call of the hard quantizer with the caller's output vector
QuantizeHard ==
    /\ \E sample \in Samples(vocabulary) :
         /\ quantized_sample' = quantize_hard(sample, vocabulary, quantized_sample)
         /\ quantOp' = [op |-> "quantize_hard", sample |-> sample,
                        before |-> quantized_sample]
    /\ UNCHANGED <<vocabulary, quantized_samples>>
    /\ UNCHANGED notQuantizer

\* one call of quantize_samples_parallel with the caller's output vector
QuantizeSamples ==
    /\ \E samples \in SampleSets(vocabulary) :
         /\ quantized_samples' =
                quantize_samples_parallel(samples, vocabulary, quantized_samples)
         /\ quantOp' = [op |-> "quantize_samples_parallel", samples |-> samples,
                        before |-> quantized_samples]
    /\ UNCHANGED <<vocabulary, quantized_sample>>
    /\ UNCHANGED notQuantizer

\* the caller takes a fresh output vector (vec_vec_f32_t quantized_samples;)
FreshOutput ==
    /\ quantized_sample # <<>> \/ quantized_samples # <<>>
    /\ quantized_sample' = <<>>
    /\ quantized_samples' = <<>>
    /\ quantOp' = [op |-> "fresh"]
    /\ UNCHANGED vocabulary
    /\ UNCHANGED notQuantizer

QuantizerNext ==
    \/ QuantizeHard
    \/ QuantizeSamples
    \/ FreshOutput

\* no sample is quantized while the other parts are exercised
QuantizerIdle ==
    /\ vocabulary = <<>>
    /\ quantized_sample = <<>>
    /\ quantized_samples = <<>>
    /\ quantOp = [op |-> "none"]

\* ---- build_histvw ----------------------------------------------------------

\* most samples of one image
MaxImageSamples == 6
\* largest resolution of the spatial pyramid
MaxRes == 3
\* the vocabulary size the histograms are built for
NumWords == 2
\* a float of a histogram or a position is kept exactly: the float v, 0 or in
\* [1/16, 8), is the integer v * 2^27
FloatUnit == 134217728
\* a float has 24 significant bits
Significand == 16777216

\* the distance of neighbouring floats at the magnitude of n
RECURSIVE Ulp(_, _)
Ulp(n, u) == IF n \div u < Significand THEN u ELSE Ulp(n, 2 * u)

\* the float nearest to n / d, ties to the even significand
RoundQuotient(n, d) ==
    LET u == Ulp(n \div d, 1)
        m == n \div (d * u)
        r == n % (d * u)
    IN IF 2 * r < d * u THEN m * u
       ELSE IF 2 * r > d * u THEN (m + 1) * u
       ELSE IF m % 2 = 0 THEN m * u ELSE (m + 1) * u

\* operator+ and operator/ of float
HAdd(a, b) ==
    IF a = NaN \/ b = NaN THEN NaN
    ELSE IF a = Inf \/ b = Inf THEN Inf
    ELSE RoundQuotient(a + b, 1)

HDiv(a, n) ==
    IF a = NaN THEN NaN
    ELSE IF a = Inf THEN Inf
    ELSE IF n = 0 THEN (IF a = 0 THEN NaN ELSE Inf)
    ELSE RoundQuotient(a, n)

\* static_cast<int>(position * res)
Scaled(p, res) == (p * res) \div FloatUnit

\* if (x == res) x--;
Clamp_None(x, res) == x
Clamp(x, res) == IF x = res THEN x - 1 ELSE x

\* the linear index of the cell of a position
CellIndex(pos, res) ==
    LET x == Clamp(Scaled(pos[1], res), res)
        y == Clamp(Scaled(pos[2], res), res)
    IN y * res + x

\* the offset of the slice a sample is added to
Offset(pos, i, K, res) == IF res > 1 THEN K * CellIndex(pos[i], res) ELSE 0

\* the inner loop: histvw[offset+j] += feature[j] for every j
AddFeatureAt(h, feature, offset) ==
    [k \in 1..Len(h) |->
        IF k > offset /\ k <= offset + Len(feature)
        THEN HAdd(h[k], feature[k - offset]) ELSE h[k]]

\* the loop over the samples from sample i on
RECURSIVE Accumulate(_, _, _, _, _, _)
Accumulate(h, features, pos, i, K, res) ==
    IF i > Len(features) THEN h
    ELSE Accumulate(AddFeatureAt(h, features[i], Offset(pos, i, K, res)),
                    features, pos, i + 1, K, res)

\* if (normalize && quantized_features.size() > 0)
Normalizes_Always(normalize, numSamples) == normalize
Normalizes(normalize, numSamples) == normalize /\ numSamples > 0

\* the assertions of build_histvw
HistAsserts(features, K, pos, res) ==
    /\ res > 0
    /\ K > 0
    /\ res > 1 => Len(pos) = Len(features)
    /\ \A i \in 1..Len(features) : Len(features[i]) = K
    /\ res > 1 => \A i \in 1..Len(features) :
                      CellIndex(pos[i], res) \in 0..(res * res - 1)

\* build_histvw: the output vector it leaves, h being the vector handed in
build_histvw(features, K, h, normalize, pos, res) ==
    LET sums == Accumulate(resize(h, res * res * K, 0), features, pos, 1, K, res)
    IN IF Normalizes(normalize, Len(features))
       THEN [k \in 1..Len(sums) |-> HDiv(sums[k], Len(features))]
       ELSE sums

\* the one-hot vectors of the words, and the positions of the samples
OneHot(w, K) == [k \in 1..K |-> IF k = w THEN FloatUnit ELSE 0]
Features == {OneHot(w, NumWords) : w \in 1..NumWords}
SamplePositions == {<<0, FloatUnit \div 2>>, <<FloatUnit, FloatUnit>>}
Resolutions == 1..MaxRes

\* no sample of the image has been read
HistogramInit ==
    /\ quantized_features = <<>>
    /\ positions = <<>>
    /\ histvw = <<>>
    /\ histOp = [op |-> "none"]

\* the next quantized sample of the image and its position
AddFeature ==
    /\ Len(quantized_features) < MaxImageSamples
    /\ \E feature \in Features, pos \in SamplePositions :
         /\ quantized_features' = Append(quantized_features, feature)
         /\ positions' = Append(positions, pos)
    /\ histvw' = <<>>
    /\ histOp' = [op |-> "none"]
    /\ UNCHANGED notHistogram

\* one call of build_histvw with a fresh output vector (vec_f32_t tmp;): a
\* failing assertion stops it
BuildHistvw ==
    /\ histOp.op = "none"
    /\ \E res \in Resolutions, normalize \in BOOLEAN :
         LET asserted == HistAsserts(quantized_features, NumWords, positions, res)
         IN /\ histvw' = IF asserted
                         THEN build_histvw(quantized_features, NumWords, <<>>,
                                           normalize, positions, res)
                         ELSE histvw
            /\ histOp' = [op |-> "build_histvw", res |-> res,
                          normalize |-> normalize, asserted |-> asserted]
    /\ UNCHANGED <<quantized_features, positions>>
    /\ UNCHANGED notHistogram

HistogramNext ==
    \/ AddFeature
    \/ BuildHistvw

\* no histogram is built while the other parts are exercised
HistogramIdle == HistogramInit

(***************************************************************************)
(* Part VI: FileList::random_sample                                        *)
(***************************************************************************)

\* longest file list that is sampled
MaxListFiles == 5

\* std::random_shuffle with the random numbers draws: for i = 1 .. n-1 the
\* entries i and draws[i], a number in 0..i, change places
RECURSIVE random_shuffle(_, _, _)
random_shuffle(indices, draws, i) ==
    IF i >= Len(indices) THEN indices
    ELSE LET j == draws[i]
         IN random_shuffle([k \in 1..Len(indices) |->
                               IF k = i + 1 THEN indices[j + 1]
                               ELSE IF k = j + 1 THEN indices[i + 1]
                               ELSE indices[k]],
                           draws, i + 1)

\* the random numbers a seed can give for a list of n entries
Draws(n) == [1..(n - 1) -> 0..(n - 1)]

UniformDraws(n) == {d \in Draws(n) : \A i \in 1..(n - 1) : d[i] <= i}

\* std::sort of distinct numbers
RECURSIVE SortAscending(_)
SortAscending(S) ==
    IF S = {} THEN <<>>
    ELSE LET least == CHOOSE x \in S : \A y \in S : x <= y
         IN <<least>> \o SortAscending(S \ {least})

\* the indices kept: the first new_size of the shuffled ones
Kept(shuffled, new_size) == {shuffled[k] : k \in 1..new_size}

\* the order of the kept indices
Ordered_Shuffled(shuffled, new_size) == SubSeq(shuffled, 1, new_size)
Ordered(shuffled, new_size) == SortAscending(Kept(shuffled, new_size))

\* FileList::random_sample: the list it leaves
random_sample(files, new_size, draws) ==
    IF new_size >= Len(files) THEN files
    ELSE LET kept == Ordered(random_shuffle(Iota(Len(files)), draws, 1), new_size)
         IN [k \in 1..new_size |-> files[kept[k] + 1]]

\* a list of distinct files: each file stands for its position in the list
FileListInit ==
    /\ \E n \in 0..MaxListFiles : _files = [k \in 1..n |-> k - 1]
    /\ listOp = [op |-> "none"]

RandomSample ==
    /\ \E new_size \in 0..(MaxListFiles + 1), draws \in UniformDraws(Len(_files)) :
         /\ _files' = random_sample(_files, new_size, draws)
         /\ listOp' = [op |-> "random_sample", new_size |-> new_size,
                       before |-> _files]
    /\ UNCHANGED notFileList

FileListNext == RandomSample

\* no list is sampled while the other parts are exercised
FileListIdle ==
    /\ _files = <<>>
    /\ listOp = [op |-> "none"]

(***************************************************************************)
(* Claims about the inverted index                                         *)
(***************************************************************************)

\* the (score, doc_id) pairs of the accumulators of the last query
AccumulatorPairs == {<<lastOp.acc[d + 1], d>> : d \in Docs(invertedIndex)}

\* pair a comes before pair b when all pairs are sorted descending
Before(a, b) == a[1] > b[1] \/ (a[1] = b[1] /\ a[2] > b[2])

\* C9: a query for R results on a finalized index with N documents returns
\* exactly min(R, N) entries, each the (score, doc_id) pair of a document of
\* the index, with pairwise distinct doc ids, in descending order of the pair;
\* every document that is not returned has a pair smaller than every returned
\* one; nothing that was in the result vector before is left in it.
C9_TopResults ==
    (lastOp.op = "query" /\ lastOp.fin) =>
        LET res == lastOp.result
            n == Min(lastOp.R, invertedIndex._numDocuments)
        IN /\ \A p \in AccumulatorPairs : IsNum(p[1])
           /\ Len(res) = n
           /\ \A k \in 1..Len(res) : res[k] \in AccumulatorPairs
           /\ \A j, k \in 1..Len(res) :
                 j < k => res[j][2] # res[k][2] /\ Before(res[j], res[k])
           /\ \A p \in AccumulatorPairs \ Range(res) :
                 \A k \in 1..Len(res) : Before(res[k], p)
           /\ \A k \in 1..Len(lastOp.before) :
                 lastOp.before[k] \notin AccumulatorPairs => lastOp.before[k] \notin Range(res)

\* a query for 2 of 3 documents on a finalized index, handed a vector that
\* held an entry; the two returned documents have the same positive score and
\* the document left out has a different one
C9_Witness ==
    /\ lastOp.op = "query"
    /\ lastOp.fin
    /\ invertedIndex._numDocuments = 3
    /\ lastOp.R = 2
    /\ lastOp.before = <<StaleEntry>>
    /\ Len(lastOp.result) = 2
    /\ lastOp.result[1][1] = lastOp.result[2][1]
    /\ lastOp.result[1][1] > 0
    /\ \E p \in AccumulatorPairs : p[1] # lastOp.result[1][1]

\* C10: the finalized flag is false after construction and after every
\* addHistogram, and true after finalize and after load: it is true exactly
\* when a finalize or load has happened and no addHistogram since.
C10_FinalizedLifecycle ==
    /\ sinceFinal = "never" => ~invertedIndex._finalized
    /\ sinceFinal = "added" => ~invertedIndex._finalized
    /\ sinceFinal = "clean" => invertedIndex._finalized
    /\ sinceFinal \in {"never", "added", "clean"}

\* a histogram was added to an index that had been finalized and saved
C10_Witness ==
    /\ sinceFinal = "added"
    /\ ~invertedIndex._finalized
    /\ file # <<>>
    /\ \E t \in Terms(invertedIndex) : Len(invertedIndex._docWeightList[t]) > 0

\* the positions of document d in posting list t
Postings(t, d) ==
    {l \in 1..Len(invertedIndex._docFrequencyList[t]) :
        invertedIndex._docFrequencyList[t][l][1] = d}

\* C11: after any sequence of addHistogram calls, _numDocuments is the number
\* of calls; posting list t holds exactly one entry (d, h_d[t]) for every
\* document d with h_d[t] > 0 and none for other documents, doc ids strictly
\* ascending and below _numDocuments; _ft[t] is the length of posting list t
\* and _Ft[t] the sum of its frequencies; _uniqueWords = {t : _ft[t] > 0};
\* _documentSizes and _documentUniqueSizes have one entry per document, the
\* latter the number of posting lists that hold the document.
C11_PostingLists ==
    LET ix == invertedIndex
        N == Len(added)
    IN /\ ix._numDocuments = N
       /\ \A t \in Terms(ix) :
             LET pl == ix._docFrequencyList[t]
             IN /\ \A d \in 0..(N - 1) :
                      IF added[d + 1][t] > 0
                      THEN /\ Cardinality(Postings(t, d)) = 1
                           /\ \A l \in Postings(t, d) : pl[l] = <<d, F(added[d + 1][t])>>
                      ELSE Postings(t, d) = {}
                /\ \A l \in 1..Len(pl) : pl[l][1] \in 0..(N - 1)
                /\ \A j, k \in 1..Len(pl) : j < k => pl[j][1] < pl[k][1]
                /\ ix._ft[t] = Len(pl)
                /\ ix._Ft[t] = FSum([l \in 1..Len(pl) |-> pl[l][2]])
       /\ ix._uniqueWords = {t \in Terms(ix) : ix._ft[t] > 0}
       /\ Len(ix._documentSizes) = N
       /\ Len(ix._documentUniqueSizes) = N
       /\ \A d \in 0..(N - 1) :
             ix._documentUniqueSizes[d + 1] =
                 Cardinality({t \in Terms(ix) : Postings(t, d) # {}})

\* three histograms were added; some term occurs in the first and the third
\* but not in the second, and the second holds another term
C11_Witness ==
    /\ Len(added) = 3
    /\ invertedIndex._numDocuments = 3
    /\ \E t \in Terms(invertedIndex) :
          /\ added[1][t] > 0 /\ added[2][t] = 0 /\ added[3][t] > 0
          /\ Len(invertedIndex._docFrequencyList[t]) = 2
    /\ \E t \in Terms(invertedIndex) : added[2][t] > 0

\* C12: a query on an index whose finalized flag is false aborts: no query
\* that read posting weights and gave back a result ran on an unfinalized
\* index.
C12_UnfinalizedQueryAborts ==
    (/\ lastOp.op = "query"
     /\ \E k \in 1..Len(lastOp.result) : FLess(0, lastOp.result[k][1])) => lastOp.fin

\* C13, in every state: a save of an index whose finalized flag is false has
\* ended the process on the assertion and the file holds no index field.
C13_Inv ==
    (lastOp.op = "save" /\ ~invertedIndex._finalized) => (aborted /\ file = <<>>)

\* C13, in every step: when index fields are written to the file, they are
\* the fields of the index at that moment, and its finalized flag is true.
C13_Step ==
    (file' # file /\ file' # <<>>) =>
        /\ invertedIndex._finalized
        /\ Len(file') = 1
        /\ file'[1] = SubSeq(Written(invertedIndex), 1, Len(file'[1]))
        /\ ~aborted' => file'[1] = Written(invertedIndex)

\* C13: saving an index whose finalized flag is false fails on the assertion
\* without writing any index field, and every index file that is written was
\* produced from a finalized index.
C13_SaveFinalized == []C13_Inv /\ [][C13_Step]_vars

\* save was called on an index that had been finalized and then grown by a
\* histogram: the process ended and the file is empty
C13_Witness ==
    /\ lastOp.op = "save"
    /\ aborted
    /\ ~invertedIndex._finalized
    /\ sinceFinal = "added"
    /\ \E t \in Terms(invertedIndex) : Len(invertedIndex._docWeightList[t]) > 0
    /\ file = <<>>

\* reading the stream back gives an index with the members of ix and the
\* finalized flag true, and every query gives the same ranked result on it
\* as on ix
ReadsBackAs(stream, ix) ==
    LET back == Read(stream)
    IN /\ back = ix
       /\ back._finalized
       /\ \A h \in Histograms(ix._numWords), tfk \in TfKinds,
             idfk \in IdfKinds, numResults \in 0..MaxResults :
             query(back, h, tfk, idfk, numResults, <<>>, 0) =
             query(ix, h, tfk, idfk, numResults, <<>>, 0)

\* a step that wrote fields of the index to the file, a step that loaded
SaveStep == file' # file /\ file' # <<>>
LoadStep == lastOp'.op = "load" /\ lastOp' # lastOp

\* C14, in every step that writes an index file: the save returns, and
\* reading the stream back gives the saved index. In every load step,
\* whatever the object held before: the load returns, the object holds
\* exactly what the file holds and its finalized flag is true.
C14_Step ==
    /\ SaveStep => (~aborted' /\ ReadsBackAs(file'[1], invertedIndex))
    /\ LoadStep =>
          /\ ~aborted'
          /\ Written(invertedIndex') = file[1]
          /\ invertedIndex'._finalized

\* C14: for any finalized index, save followed by load into any index object
\* yields an index whose members equal the saved ones and whose finalized
\* flag is true, so every query returns the same ranked result before and
\* after the round trip.
C14_RoundTrip == [][C14_Step]_vars

\* C14, in every save and load step that returns
C14_StepReturned ==
    /\ (SaveStep /\ ~aborted') => ReadsBackAs(file'[1], invertedIndex)
    /\ (LoadStep /\ ~aborted') =>
          /\ Written(invertedIndex') = file[1]
          /\ invertedIndex'._finalized

\* C14 for the saves and loads that return: the round trip gives the saved
\* index
C14_RoundTripReturned == [][C14_StepReturned]_vars

\* an index of three documents with a non-zero weight was loaded into an
\* object that held something else, from the file an earlier save had written
C14_Witness ==
    /\ lastOp.op = "load"
    /\ lastOp.differed
    /\ invertedIndex._numDocuments = 3
    /\ invertedIndex._finalized
    /\ \E t \in Terms(invertedIndex) :
          \E l \in 1..Len(invertedIndex._docWeightList[t]) :
             invertedIndex._docWeightList[t][l] > 0
    /\ Written(invertedIndex) = file[1]
    /\ added = fileAdded

Init == DriverInit /\ IndexIdle /\ WriterIdle /\ SearchIdle /\ LibraryIdle
    /\ QuantizerIdle /\ HistogramIdle /\ FileListIdle

Next == DriverNext

Spec == Init /\ [][Next]_vars

\* an index is constructed; the driver is not used
InitIndex == IndexInit /\ DriverIdle /\ WriterIdle /\ SearchIdle /\ LibraryInit
    /\ QuantizerIdle /\ HistogramIdle /\ FileListIdle

SpecIndex == InitIndex /\ [][IndexNext]_vars

\* the index is built, saved and loaded; what a query would give is computed
\* where a claim asks for it
IndexFileNext ==
    \/ AddHistogram
    \/ Finalize
    \/ Save
    \/ Load

SpecIndexFile == InitIndex /\ [][IndexFileNext]_vars

(***************************************************************************)
(* Claims about io::write / io::read and the property writer               *)
(***************************************************************************)

\* element i of the history, read from the position it was written at
ReadBack(i, ub) ==
    io_read(ElementTypes[elemType], _ofs.bytes, elements[i].at, ub)

\* the value read is the value written, and the read ends where the write
\* ended
SameElement(i, r) ==
    /\ r.ok
    /\ r.val = elements[i].val
    /\ r.next = elements[i].at + Len(elements[i].bytes)

\* only push_back was called so far
OnlyPushBack == \A i \in 1..Len(elements) : elements[i].op = "push_back"

\* C15: every element handed to the writer is written whole, io::read at
\* the position it was written at yields an equal value and consumes
\* exactly the bytes written, whatever the shape of the element; and after
\* push_back calls only, entry i of the offset table is the position the
\* i-th element was written at.
C15_RoundTrip ==
    /\ \A i \in 1..Len(elements) :
          /\ elements[i].returned
          /\ \A ub \in SubscriptOutcomes : SameElement(i, ReadBack(i, ub))
    /\ OnlyPushBack =>
          /\ Len(_offset) = Len(elements)
          /\ \A i \in 1..Len(elements) : _offset[i] = elements[i].at

\* C15 for the writes that return, read where &v[0] yields the null
\* pointer: the round trip holds for every element
C15_RoundTripDefined ==
    \A i \in 1..Len(elements) :
       elements[i].returned => SameElement(i, ReadBack(i, "null"))

\* three elements of a nested type were pushed and read back
C15_Witness ==
    /\ elemType = 14
    /\ Len(elements) = 3
    /\ OnlyPushBack
    /\ \A i \in 1..3 : elements[i].returned
    /\ elements[1].val # elements[2].val
    /\ \A i \in 1..3 : SameElement(i, ReadBack(i, "abort"))

\* T(): the empty element of type T
RECURSIVE EmptyValue(_)
EmptyValue(T) ==
    CASE IsArithmetic(T) -> 0
      [] T.k = "array" -> [i \in 1..T.n |-> EmptyValue(T.of)]
      [] T.k = "pair" -> <<EmptyValue(T.first), EmptyValue(T.second)>>
      [] T.k = "set" -> {}
      [] OTHER -> <<>>

\* PropertyReaderT<T>::get(i) on the table and the bytes of the writer: the
\* element decoded at offset i of the table, the empty element for -1
get(i, ub) ==
    IF _offset[i + 1] = 0 - 1 THEN EmptyValue(ElementTypes[elemType])
    ELSE io_read(ElementTypes[elemType], _ofs.bytes, _offset[i + 1], ub).val

\* the slots of the table
Slots == 0..(Len(_offset) - 1)

\* the writer was opened and got exactly the calls insert(., 3),
\* insert(., 0), insert(., 5)
Inserted305 ==
    /\ Len(elements) = 3
    /\ \A i \in 1..3 : elements[i].op = "insert"
    /\ <<elements[1].pos, elements[2].pos, elements[3].pos>> = <<3, 0, 5>>

\* slots 0, 3 and 5 hold the positions the three elements were written at
Points305 ==
    /\ {0, 3, 5} \subseteq Slots
    /\ _offset[1] = elements[2].at
    /\ _offset[4] = elements[1].at
    /\ _offset[6] = elements[3].at

\* slot s exists, holds -1 and is read back as the empty element
EmptySlot(s) ==
    /\ s \in Slots
    /\ _offset[s + 1] = 0 - 1
    /\ \A ub \in SubscriptOutcomes : get(s, ub) = EmptyValue(ElementTypes[elemType])

\* C16 as stated: after inserts at 3, 0, 5 slots 0, 3, 5 point to the
\* values and every other slot in 0..6 is empty.
C16_SparseInsert_0to6 ==
    Inserted305 => Points305 /\ \A s \in (0..6) \ {0, 3, 5} : EmptySlot(s)

\* the table after insert(., 3), insert(., 0), insert(., 5) has the six
\* slots 0..5: 0, 3, 5 point to the values, 1, 2, 4 are empty
C16_Inv ==
    Inserted305 =>
       /\ Slots = 0..5
       /\ Points305
       /\ \A s \in {1, 2, 4} : EmptySlot(s)

\* an insert that passed its assertion: the table reaches up to p, new
\* slots below p hold -1, slot p holds the position the element is written
\* at, every other slot is as before
C16_Step ==
    (writerOp'.op = "insert" /\ Len(elements') = Len(elements) + 1) =>
       LET p == writerOp'.pos
           n == Len(_offset)
       IN /\ Len(_offset') = IF p < n THEN n ELSE p + 1
          /\ _offset'[p + 1] = tellp(_ofs)
          /\ \A s \in 0..(Len(_offset') - 1) :
                s # p => _offset'[s + 1] = IF s < n THEN _offset[s + 1] ELSE 0 - 1

\* C16 (amended): inserts at 3, 0, 5 into a fresh writer give a table of
\* the six slots 0..5 with 0, 3, 5 pointing to the values and 1, 2, 4
\* empty (-1, read back as the empty T); every insert at p extends the table
\* with -1 up to p, records the offset at p and leaves the other slots.
C16_SparseInsert == []C16_Inv /\ [][C16_Step]_vars

\* the three inserts happened, with different values at slots 0 and 3
C16_Witness ==
    /\ Inserted305
    /\ elements[1].val # elements[2].val
    /\ _offset = <<elements[2].at, 0 - 1, 0 - 1, elements[1].at, 0 - 1,
                   elements[3].at>>

\* the slots of the table that hold the position element i was written at
Referring(i) == {s \in Slots : _offset[s + 1] = elements[i].at}

\* a later insert was given the slot of element i
Replaced(i) ==
    \E j \in (i + 1)..Len(elements) : elements[j].pos = elements[i].pos

\* every entry other than -1 is the position an element was written at, and
\* no two entries are the same position
EntriesPoint ==
    /\ \A s \in Slots :
          _offset[s + 1] # 0 - 1 =>
             \E i \in 1..Len(elements) : elements[i].at = _offset[s + 1]
    /\ \A s1, s2 \in Slots :
          (s1 # s2 /\ _offset[s1 + 1] # 0 - 1) => _offset[s1 + 1] # _offset[s2 + 1]

\* C17 as stated: entries other than -1 are start offsets of written
\* elements, no two entries are equal, and every element written is
\* referenced by exactly one entry.
C17_ExactlyOne ==
    /\ EntriesPoint
    /\ \A i \in 1..Len(elements) : Cardinality(Referring(i)) = 1

\* C17 (amended): entries other than -1 are start offsets of written
\* elements, no two entries are equal, and an element written is referenced
\* by exactly one entry unless a later insert was given its slot, and then
\* by none.
C17_Offsets ==
    /\ EntriesPoint
    /\ \A i \in 1..Len(elements) :
          Cardinality(Referring(i)) = IF Replaced(i) THEN 0 ELSE 1

\* push_back, insert beyond the end, push_back: three elements, each
\* referenced, and slots left empty between them
C17_Witness ==
    /\ Len(elements) = 3
    /\ <<elements[1].op, elements[2].op, elements[3].op>> =
          <<"push_back", "insert", "push_back">>
    /\ elements[2].pos = 3
    /\ \A i \in 1..3 : Cardinality(Referring(i)) = 1
    /\ Len(_offset) = 5
    /\ _offset[2] = 0 - 1

\* the bytes of elements 1..n of the history, in the order written
RECURSIVE ElementBytes(_)
ElementBytes(n) ==
    IF n = 0 THEN <<>> ELSE ElementBytes(n - 1) \o elements[n].bytes

\* the number a string of decimal digits stands for
RECURSIVE Decimal(_)
Decimal(str) ==
    IF str = <<>> THEN 0
    ELSE 10 * Decimal(SubSeq(str, 1, Len(str) - 1)) + (str[Len(str)] - 48)

\* the file ends with the table, the map and the position of the map: the
\* last eight bytes are the position of a map that ends where they start,
\* the map is the metadata map, the table starts where its "__offsets"
\* says, right after the elements, ends where the map starts, and is the
\* offset table
FileLayout(ub) ==
    LET bytes == _ofs.bytes
        end == Len(bytes)
        p_map == ScalarRead(Int64, bytes, end - 8).val
        m == io_read(StrMap, bytes, p_map, ub)
        p_offsets == Decimal(m.val[Key_offsets])
        table == io_read(OffsetTable, bytes, p_offsets, ub)
    IN /\ end >= 8
       /\ m.ok /\ m.val = _map /\ m.next = end - 8
       /\ Key_offsets \in DOMAIN m.val
       /\ p_offsets = Len(ElementBytes(Len(elements)))
       /\ SubSeq(bytes, 1, p_offsets) = ElementBytes(Len(elements))
       /\ table.ok /\ table.val = _offset /\ table.next = p_map

\* the four entries of the map of a closed file
Metadata ==
    /\ DOMAIN _map = {Key_version, Key_typeinfo, Key_features, Key_offsets}
    /\ Decimal(_map[Key_version]) = 2
    /\ _map[Key_typeinfo] = nameof(elemType)
    /\ _map[Key_features] = <<48>>
    /\ _map[Key_offsets] = lexical_cast(Len(ElementBytes(Len(elements))))

\* the destructor ran on an opened writer, on a never opened writer
DestroyedOpen == writerOp.op = "destroy" /\ writerOp.wasOpen
DestroyedUnopened == writerOp.op = "destroy" /\ ~writerOp.wasOpen

\* C18: the destructor of an opened writer writes, after the elements, the
\* offset table, the metadata map and the position of the map as the last
\* eight bytes, and closes the file; the map holds __version = 2,
\* __typeinfo, __features = 0 and __offsets = the position where the table
\* starts.  The destructor of a writer never opened writes nothing.
C18_Close ==
    /\ DestroyedOpen =>
          /\ writerOp.returned
          /\ ~_ofs.is_open
          /\ Metadata
          /\ \A ub \in SubscriptOutcomes : FileLayout(ub)
    /\ DestroyedUnopened => _ofs.bytes = <<>> /\ _map = <<>>

\* C18 for the destructor runs that return: the layout and the map of the
\* file, and nothing written by a writer never opened
C18_CloseReturned ==
    /\ (DestroyedOpen /\ writerOp.returned) =>
          /\ ~_ofs.is_open
          /\ Metadata
          /\ FileLayout("null")
          /\ (_offset # <<>> => FileLayout("abort"))
    /\ DestroyedUnopened => _ofs.bytes = <<>> /\ _map = <<>>

\* a writer with elements at slots 0, 3 and 4 was closed
C18_Witness ==
    /\ DestroyedOpen
    /\ writerOp.returned
    /\ Len(elements) = 3
    /\ Len(_offset) = 5
    /\ _offset[2] = 0 - 1
    /\ elemType = 10
    /\ Decimal(_map[Key_offsets]) > 8
    /\ FileLayout("abort")

\* a writer is constructed, opened, filled and destroyed; the driver and the
\* index are not used
InitStore == WriterInit /\ DriverIdle /\ IndexIdle /\ SearchIdle /\ LibraryInit
    /\ QuantizerIdle /\ HistogramIdle /\ FileListIdle

SpecStore == InitStore /\ [][WriterNext]_vars

(***************************************************************************)
(* Claims about linear search                                              *)
(***************************************************************************)

\* the indices of the stored features, and those in the result
Stored == 0..(numFeatures - 1)
Found == {result[k][2] : k \in 1..Len(result)}

\* every entry of the result is a stored feature with its distance in the
\* last search
EntriesStored ==
    \A k \in 1..Len(result) :
       /\ result[k][2] \in Stored
       /\ result[k][1] = searchOp.dist[result[k][2] + 1]

\* v is the k-th distance of a direct ascending sort of all distances
KthSorted(dist, k, v) ==
    /\ Cardinality({j \in DOMAIN dist : dist[j] < v}) < k
    /\ k <= Cardinality({j \in DOMAIN dist : dist[j] <= v})

\* C19: linear_search called with an empty vector returns min(R, N)
\* entries of distinct stored features, in ascending order of distance,
\* the k-th with the k-th distance of a direct sort of all distances: the
\* indices are those of the min(R, N) nearest features, up to ties.
C19_Agreement ==
    (searchOp.op = "linear_search" /\ searchOp.before = <<>>) =>
       /\ Len(result) = Min(searchOp.num_results, numFeatures)
       /\ EntriesStored
       /\ Cardinality(Found) = Len(result)
       /\ \A k \in 1..(Len(result) - 1) : result[k][1] <= result[k + 1][1]
       /\ \A k \in 1..Len(result) : KthSorted(searchOp.dist, k, result[k][1])
       /\ \A i \in Found, j \in Stored \ Found :
             searchOp.dist[i + 1] <= searchOp.dist[j + 1]

\* the two nearest of three features at distances 2, 0 and 1
C19_Witness ==
    /\ searchOp.op = "linear_search"
    /\ searchOp.before = <<>>
    /\ searchOp.num_results = 2
    /\ searchOp.dist = <<2, 0, 1>>
    /\ result = <<<<0, 1>>, <<1, 2>>>>

\* C20: whatever the vector held before, the result of
\* LinearSearchManager::query holds only entries of stored features and is
\* the result of the call with an empty vector.
C20_QueryClears ==
    searchOp.op = "query" =>
       /\ EntriesStored
       /\ result = ManagerQuery(searchOp.dist, <<>>, searchOp.num_results)

\* searches are made on a constructed manager; the driver, the index and
\* the writer are not used
InitSearch == SearchInit /\ DriverIdle /\ IndexIdle /\ WriterIdle /\ LibraryIdle
    /\ QuantizerIdle /\ HistogramIdle /\ FileListIdle

SpecSearch == InitSearch /\ [][SearchNext]_vars

(***************************************************************************)
(* Claims about the quantizer                                              *)
(***************************************************************************)

\* the distances of a sample to the centroids, and the position (from 1) of
\* the centroid quantize_hard selects for it
DistanceTo(sample, i) == dist_fn(sample, vocabulary[i])

Selected(sample) == Closest(sample, vocabulary, 1, 0, FloatMax) + 1

\* the centroids at minimal distance: no centroid is nearer to the sample
Minimal(sample) ==
    {i \in 1..Len(vocabulary) :
        /\ DistanceTo(sample, i) # NaN
        /\ \A j \in 1..Len(vocabulary) :
               ~FLess(DistanceTo(sample, j), DistanceTo(sample, i))}

Lowest(S) == CHOOSE x \in S : \A y \in S : x <= y
Highest(S) == CHOOSE x \in S : \A y \in S : x >= y

\* some centroid has a finite distance to the sample
SomeFinite(sample) == \E i \in 1..Len(vocabulary) : IsNum(DistanceTo(sample, i))

\* C21 as stated: when several centroids have the same minimal distance to
\* the sample, quantize_hard selects the one with the lowest index.
C21_LowestIndex ==
    quantOp.op = "quantize_hard" =>
        LET M == Minimal(quantOp.sample)
        IN Cardinality(M) > 1 =>
               /\ Selected(quantOp.sample) = Lowest(M)
               /\ quantized_sample[Lowest(M)] = 1

\* C21 amended: when several centroids have the same minimal distance and it
\* is finite, quantize_hard selects the one with the highest index among them
\* (the test is <=, so a later centroid at the same distance replaces an
\* earlier one); when no distance is finite it selects index 0.
C21_HighestIndex ==
    quantOp.op = "quantize_hard" =>
        LET M == Minimal(quantOp.sample)
        IN /\ SomeFinite(quantOp.sample) =>
                  /\ Selected(quantOp.sample) = Highest(M)
                  /\ quantized_sample[Highest(M)] = 1
           /\ ~SomeFinite(quantOp.sample) =>
                  /\ Selected(quantOp.sample) = 1
                  /\ quantized_sample[1] = 1

\* C21 witness: the first and the last centroid at the same finite
\* minimal distance, quantized into a fresh vector
C21_Witness ==
    /\ quantOp.op = "quantize_hard"
    /\ quantOp.before = <<>>
    /\ Len(vocabulary) = MaxCentroids
    /\ Minimal(quantOp.sample) = {1, MaxCentroids}
    /\ SomeFinite(quantOp.sample)
    /\ quantized_sample[MaxCentroids] = 1
    /\ quantized_sample[1] = 0

\* the one-hot indicator of position w among K entries
Indicator(w, K) == [k \in 1..K |-> IF k = w THEN 1 ELSE 0]

\* C22 as stated: for any vocabulary of K >= 1 centroids, any sample and any
\* prior contents of the output vector, the result of quantize_hard is the
\* K-vector with 1 at the selected centroid and 0 everywhere else.
C22_OneHot ==
    /\ quantOp.op = "quantize_hard" =>
           quantized_sample = Indicator(Selected(quantOp.sample), Len(vocabulary))
    /\ quantOp.op = "quantize_samples_parallel" =>
           /\ Len(quantized_samples) = Len(quantOp.samples)
           /\ \A i \in 1..Len(quantized_samples) :
                  quantized_samples[i] =
                      Indicator(Selected(quantOp.samples[i]), Len(vocabulary))

\* the entries of a vector that resize() keeps are all zero
ZeroKept(v) == \A k \in 1..Len(v) : k <= Len(vocabulary) => v[k] = 0

\* C22 for output vectors whose kept entries are zero (a fresh vector is one):
\* the result is the one-hot indicator of the selected centroid.
C22_OneHotZeroed ==
    /\ (quantOp.op = "quantize_hard" /\ ZeroKept(quantOp.before)) =>
           quantized_sample = Indicator(Selected(quantOp.sample), Len(vocabulary))
    /\ quantOp.op = "quantize_samples_parallel" =>
           /\ Len(quantized_samples) = Len(quantOp.samples)
           /\ \A i \in 1..Len(quantized_samples) :
                  (i > Len(quantOp.before) \/ ZeroKept(quantOp.before[i])) =>
                      quantized_samples[i] =
                          Indicator(Selected(quantOp.samples[i]), Len(vocabulary))

\* C22 witness: a sample quantized into a fresh vector against the largest
\* vocabulary, the selected centroid not being the first
C22_Witness ==
    /\ quantOp.op = "quantize_hard"
    /\ quantOp.before = <<>>
    /\ Len(vocabulary) = MaxCentroids
    /\ Selected(quantOp.sample) > 1
    /\ quantized_sample = Indicator(Selected(quantOp.sample), MaxCentroids)

InitQuantizer == QuantizerInit /\ DriverIdle /\ IndexIdle /\ WriterIdle /\ SearchIdle
    /\ HistogramIdle /\ FileListIdle /\ LibraryIdle

SpecQuantizer == InitQuantizer /\ [][QuantizerNext]_vars

(***************************************************************************)
(* Claims about the histogram builder                                      *)
(***************************************************************************)

\* the cell of sample i at resolution res
CellOf(i, res) == IF res > 1 THEN CellIndex(positions[i], res) ELSE 0

\* the number of samples in cell c whose entry for word j is one, as a float
CountIn(c, j, res) ==
    FloatUnit * Cardinality({i \in 1..Len(quantized_features) :
                                 CellOf(i, res) = c /\ quantized_features[i][j] = FloatUnit})

\* every sample was added to the slice of its cell and to no other entry
PerCell(h, res, normalize) ==
    /\ Len(h) = NumWords * res * res
    /\ \A i \in 1..Len(quantized_features) : CellOf(i, res) \in 0..(res * res - 1)
    /\ \A c \in 0..(res * res - 1), j \in 1..NumWords :
           h[c * NumWords + j] =
               IF normalize /\ Len(quantized_features) > 0
               THEN HDiv(CountIn(c, j, res), Len(quantized_features))
               ELSE CountIn(c, j, res)

\* the component-wise float sum of the slices of the cells c, c+1, ...
RECURSIVE SumSlices(_, _, _, _)
SumSlices(h, c, res, acc) ==
    IF c >= res * res THEN acc
    ELSE SumSlices(h, c + 1, res,
                   [j \in 1..NumWords |-> HAdd(acc[j], h[c * NumWords + j])])

SliceSum(h, res) == SumSlices(h, 0, res, [j \in 1..NumWords |-> 0])

\* the flat histogram of the same samples
Flat(normalize) ==
    build_histvw(quantized_features, NumWords, <<>>, normalize, positions, 1)

Distance(a, b) == IF a < b THEN b - a ELSE a - b

RECURSIVE SumEntries(_)
SumEntries(h) == IF h = <<>> THEN 0 ELSE HAdd(Head(h), SumEntries(Tail(h)))

IsOneHot(feature) ==
    \E w \in 1..Len(feature) : feature = OneHot(w, Len(feature))

InitHistogram == HistogramInit /\ DriverIdle /\ IndexIdle /\ WriterIdle /\ SearchIdle
    /\ QuantizerIdle /\ FileListIdle /\ LibraryIdle

SpecHistogram == InitHistogram /\ [][HistogramNext]_vars

(***************************************************************************)
(* Claims about the file list                                              *)
(***************************************************************************)

\* the position in the list L of a file that occurs in it
PositionIn(L, f) == CHOOSE p \in 1..Len(L) : L[p] = f

Smaller(a, b) == IF a < b THEN a ELSE b

\* C25: after random_sample(k, seed) on a list L the list has length
\* min(k, |L|), every element comes from a distinct position of L, the
\* elements are in ascending order of their position in L, and for k >= |L|
\* the list is unchanged.
C25_Sample ==
    listOp.op = "random_sample" =>
        LET L == listOp.before
            k == listOp.new_size
        IN /\ Len(_files) = Smaller(k, Len(L))
           /\ \A i \in 1..Len(_files) : \E p \in 1..Len(L) : L[p] = _files[i]
           /\ \A i, j \in 1..Len(_files) :
                  i < j => PositionIn(L, _files[i]) < PositionIn(L, _files[j])
           /\ k >= Len(L) => _files = L

\* C25 witness: two files were drawn from the longest list, and they are
\* neither its first two nor neighbours
C25_Witness ==
    /\ listOp.op = "random_sample"
    /\ Len(listOp.before) = MaxListFiles
    /\ listOp.new_size = 2
    /\ _files = <<1, MaxListFiles - 1>>

InitFileList == FileListInit /\ DriverIdle /\ IndexIdle /\ WriterIdle /\ SearchIdle
    /\ QuantizerIdle /\ HistogramIdle /\ LibraryIdle

SpecFileList == InitFileList /\ [][FileListNext]_vars

(***************************************************************************)
(* Claims about the weights of a finalized index                           *)
(***************************************************************************)

\* the documents with at least one non-zero term, and their final weights
HasTerm(ix, d) == \E t \in Terms(ix) : ListPos(ix, t, d) # 0

FinalWeights(ix, d) ==
    [j \in 1..ix._numWords |->
        LET l == ListPos(ix, j - 1, d)
        IN IF l = 0 THEN 0 ELSE ix._docWeightList[j - 1][l]]

SquaredNorm(ix, d) ==
    FSum([j \in 1..ix._numWords |-> FMul(FinalWeights(ix, d)[j], FinalWeights(ix, d)[j])])

\* equal to 1.0 up to the rounding of the arithmetic
NearOne(a) == IsNum(a) /\ a >= F(1) - Scale \div 20 /\ a <= F(1) + Scale \div 20

\* the tf*idf weights of document d before the normalization are all zero
ZeroLength(ix, d) ==
    \A t \in Terms(ix) :
        ListPos(ix, t, d) # 0 =>
            RawWeights(ix, ix, "constant", lastOp.idf)[t][ListPos(ix, t, d)] = 0

\* C26 as stated: after finalize(self, tf, idf) with any tf and idf, every
\* document with at least one non-zero term has final weights whose squares
\* sum to 1, and no final weight is undefined.
C26_UnitNorm ==
    lastOp.op = "finalize" =>
        \A d \in Docs(invertedIndex) :
            HasTerm(invertedIndex, d) =>
                /\ NearOne(SquaredNorm(invertedIndex, d))
                /\ \A j \in 1..invertedIndex._numWords :
                       IsNum(FinalWeights(invertedIndex, d)[j])

\* C26 for the documents whose tf*idf weights are not all zero: their final
\* weights are numbers and their squares sum to 1.
C26_UnitNormNonZero ==
    lastOp.op = "finalize" =>
        \A d \in Docs(invertedIndex) :
            (HasTerm(invertedIndex, d) /\ ~ZeroLength(invertedIndex, d)) =>
                /\ NearOne(SquaredNorm(invertedIndex, d))
                /\ \A j \in 1..invertedIndex._numWords :
                       IsNum(FinalWeights(invertedIndex, d)[j])

\* C26 witness: a finalized index of several documents, one of them with two
\* terms of different weight
C26_Witness ==
    /\ lastOp.op = "finalize"
    /\ invertedIndex._numDocuments = MaxDocs
    /\ \E d \in Docs(invertedIndex) :
           /\ \A t \in Terms(invertedIndex) : ListPos(invertedIndex, t, d) # 0
           /\ invertedIndex._numWords > 1
           /\ FinalWeights(invertedIndex, d)[1] # FinalWeights(invertedIndex, d)[2]
           /\ NearOne(SquaredNorm(invertedIndex, d))

IndexWeightsNext ==
    \/ AddHistogram
    \/ FinalizeAny

SpecIndexWeights == InitIndex /\ [][IndexWeightsNext]_vars

(***************************************************************************)
(* Termination of the driver                                               *)
(***************************************************************************)

\* The scheduler runs every thread that can take a step: the main thread
\* returns from join_all() once the workers are gone, and a worker that is at
\* the loop test, at the cursor lock, in the try block or at a buffer lock
\* gets there.  Each locked block is one step: a lock_guard is released at
\* the end of its block and nothing inside it waits.  Nothing is assumed about
\* the callers of start() and current().
Fairness ==
    /\ WF_vars(Join)
    /\ \A w \in Workers :
          /\ WF_vars(WhileTest(w))
          /\ WF_vars(Claim(w))
          /\ WF_vars(Compute(w))
          /\ WF_vars(Push(w))

SpecFair == Init /\ [][Next]_vars /\ Fairness

\* every worker has left its claim loop
WorkersGone == \A w \in Workers : pc[w] \in {"idle", "exit"}

\* start() has returned and finished() is true
Returned == ret # "none" /\ _finished /\ WorkersGone

\* the cv::Exception handler of some worker has rethrown
Rethrown == \E i \in Indices : outcome[i] = "cv_exception"

Lacking(p) == {i \in Indices : i < numFiles /\ outcome[i] = "ok" /\ p \notin emitted[i]}

\* the first index whose bundle lacked p, M if there is none
FirstLacking(p) ==
    IF Lacking(p) = {} THEN numFiles
    ELSE CHOOSE i \in Lacking(p) : \A j \in Lacking(p) : i <= j

\* C28: whenever start() returns true every sink has received exactly M
\* elements, whatever properties the bundles of the generator held.
C28_EqualLength ==
    ret = "true" => \A p \in Writers : Len(sink[p]) = numFiles

\* C28 for what the code does: when start() returns true, sink p holds the
\* outputs of the indices below the first bundle that lacked p, and every
\* bundle from there on lacked p as well; the sinks have M elements each when
\* no bundle lacked a property.
C28_LengthToFirstLacking ==
    ret = "true" =>
        \A p \in Writers :
            /\ sink[p] = Iota(FirstLacking(p))
            /\ \A i \in Indices : (FirstLacking(p) <= i /\ i < numFiles) => i \in Lacking(p)

\* C28 witness: start() returned true although only the bundle of the last
\* image lacked a property: the streams differ in length by one
C28_Witness ==
    /\ ret = "true" /\ numFiles = MaxFiles
    /\ \E p, q \in Writers :
          /\ Lacking(p) = {numFiles - 1}
          /\ Lacking(q) = {}
          /\ Len(sink[p]) = numFiles - 1
          /\ Len(sink[q]) = numFiles

(***************************************************************************)
(* Weight lists and posting lists                                          *)
(***************************************************************************)

\* posting list t of the index has a stored weight at every list position
WeightsCover(ix, t) == Len(ix._docWeightList[t]) = Len(ix._docFrequencyList[t])

\* C29: whenever _finalized is true, for every term the weight list is as
\* long as the posting list, so each list position that query reads has a
\* stored weight; the lists differ in length only while _finalized is false.
C29_WeightPerPosting ==
    invertedIndex._finalized =>
        /\ DOMAIN invertedIndex._docWeightList = DOMAIN invertedIndex._docFrequencyList
        /\ \A t \in Terms(invertedIndex) : WeightsCover(invertedIndex, t)

\* C29 witness: a query ran on a finalized index of several documents with a
\* posting list of several entries
C29_Witness ==
    /\ lastOp.op = "query"
    /\ invertedIndex._finalized
    /\ invertedIndex._numDocuments = MaxDocs
    /\ \E t \in Terms(invertedIndex) : Len(invertedIndex._docWeightList[t]) >= 2

(***************************************************************************)
(* The assertion of the ordered buffer                                     *)
(***************************************************************************)

\* worker w is about to call push_back(current, element) on writer p
AboutToPush(w, p) == pc[w] = "push" /\ wi[w] = p /\ p \in data[w]

\* the indices handed to the ordered buffer of writer p so far
PushedTo(p) == Range(_queue[p]) \cup Range(sink[p])

\* C30: in every execution the assertion of push_back holds: each call is
\* made with an index that is at least the number of elements forwarded to
\* the sink so far, and with an index that was not pushed into this buffer
\* before.
C30_PushAssertHolds ==
    /\ ~assertFailed
    /\ \A w \in Workers : \A p \in Writers :
          AboutToPush(w, p) =>
              /\ PushAssert(current[w], _numWrittenElements[p])
              /\ current[w] \notin PushedTo(p)
    /\ \A p \in Writers :
          /\ Len(_queue[p]) = Cardinality(Range(_queue[p]))
          /\ Range(_queue[p]) \cap Range(sink[p]) = {}

\* C30 witness: a worker is about to push a lower index than one that waits
\* in the buffer, while the sink already holds elements
C30_Witness ==
    \E w \in Workers : \E p \in Writers :
        /\ AboutToPush(w, p)
        /\ _queue[p] # <<>>
        /\ current[w] < Head(_queue[p])
        /\ _numWrittenElements[p] >= 1

====
